---- MODULE Spec2Model ----
(***************************************************************************)
(* Model of msoffice/pptx/font_size_calculator.py: the font-name index,    *)
(* the Pillow font cache, the font-file lookup and the font-size fitting   *)
(* search.                                                                 *)
(*                                                                         *)
(* Conventions.  A Python str is a sequence of one-character strings, so   *)
(* that lower(), replace(), endswith() and `in` are computed.  A Python    *)
(* float is an exact rational [n, d] with d > 0 (rounding error of the     *)
(* binary floating point format is not modelled).  A path                  *)
(* os.path.join(dir, filename) is the record [dir, file].                  *)
(***************************************************************************)
EXTENDS Integers, Sequences, FiniteSets, TLC

VARIABLES
    font_cache,                  \* _font_cache: (path, pixel size) -> handle
    dynamic_font_name_to_file,   \* _dynamic_font_name_to_file: key -> filenames
    last                         \* the last call made: its arguments and outcome,
                                 \* and the I/O errors the environment answered
                                 \* it with where the call loads fonts

vars == <<font_cache, dynamic_font_name_to_file, last>>

----------------------------------------------------------------------------
(* Constants of the module                                                 *)

MIN_FONT_SIZE == 6

DEFAULT_DPI == 96

----------------------------------------------------------------------------
(* Python str operations on character sequences                            *)

UpperChars ==
    <<"A", "B", "C", "D", "E", "F", "G", "H", "I", "J", "K", "L", "M",
      "N", "O", "P", "Q", "R", "S", "T", "U", "V", "W", "X", "Y", "Z">>
LowerChars ==
    <<"a", "b", "c", "d", "e", "f", "g", "h", "i", "j", "k", "l", "m",
      "n", "o", "p", "q", "r", "s", "t", "u", "v", "w", "x", "y", "z">>

\* str.lower() on one character
LowerChar(c) ==
    IF \E i \in 1..Len(UpperChars) : UpperChars[i] = c
    THEN LowerChars[CHOOSE i \in 1..Len(UpperChars) : UpperChars[i] = c]
    ELSE c

\* str.lower()
StrLower(s) == [i \in 1..Len(s) |-> LowerChar(s[i])]

\* str.endswith(suffix)
EndsWith(s, suffix) ==
    /\ Len(suffix) <= Len(s)
    /\ SubSeq(s, Len(s) - Len(suffix) + 1, Len(s)) = suffix

\* str.replace(pat, ""): every non-overlapping occurrence, left to right
RECURSIVE StrRemove(_, _)
StrRemove(s, pat) ==
    IF Len(s) < Len(pat) THEN s
    ELSE IF SubSeq(s, 1, Len(pat)) = pat
         THEN StrRemove(SubSeq(s, Len(pat) + 1, Len(s)), pat)
         ELSE <<s[1]>> \o StrRemove(Tail(s), pat)

\* `a in b` for two strings
StrIn(a, b) ==
    \E i \in 0..(Len(b) - Len(a)) : SubSeq(b, i + 1, i + Len(a)) = a

\* `x in xs` for a list
InList(x, xs) == \E i \in 1..Len(xs) : xs[i] = x

EXT_TTF == <<".", "t", "t", "f">>
EXT_TTC == <<".", "t", "t", "c">>
EXT_OTF == <<".", "o", "t", "f">>

\* filename.lower().endswith((".ttf", ".ttc", ".otf"))
HasFontExtension(filename) ==
    \/ EndsWith(StrLower(filename), EXT_TTF)
    \/ EndsWith(StrLower(filename), EXT_TTC)
    \/ EndsWith(StrLower(filename), EXT_OTF)

----------------------------------------------------------------------------
(* Python float arithmetic, as exact rationals                             *)

Rat(n, d) == [n |-> n, d |-> d]
RInt(i) == Rat(i, 1)
RAdd(a, b) == Rat(a.n * b.d + b.n * a.d, a.d * b.d)
RMul(a, b) == Rat(a.n * b.n, a.d * b.d)
RLeq(a, b) == a.n * b.d <= b.n * a.d
REq(a, b) == a.n * b.d = b.n * a.d
RIsZero(a) == a.n = 0

\* a // b for floats, b # 0: the floor of the quotient
RFloorDiv(a, b) ==
    LET num == a.n * b.d
        den == a.d * b.n
    IN  IF den > 0 THEN num \div den ELSE (0 - num) \div (0 - den)

Max(a, b) == IF a >= b THEN a ELSE b

Abs(i) == IF i < 0 THEN 0 - i ELSE i

RECURSIVE GreatestCommonDivisor(_, _)
GreatestCommonDivisor(a, b) ==
    IF b = 0 THEN a ELSE GreatestCommonDivisor(b, a % b)

\* The same float, as a fraction in lowest terms (d > 0)
InLowestTerms(r) ==
    [n |-> r.n \div GreatestCommonDivisor(Abs(r.n), r.d),
     d |-> r.d \div GreatestCommonDivisor(Abs(r.n), r.d)]

----------------------------------------------------------------------------
(* The font directories on disk.  The file system is an input of the       *)
(* program: it is fixed here, with two font directories that share a file  *)
(* name, a directory without fonts and a path that is no directory; and,   *)
(* for the index and the lookup taken alone, two directories with files    *)
(* that share a family name, a collection that breaks off after its first  *)
(* font, files fontTools cannot read and a file that is no font.           *)

NAME_M1_TTF == <<"M", "1", ".", "t", "t", "f">>
NAME_FL_OTF == <<"f", "l", ".", "O", "T", "F">>
NAME_N_TXT == <<"n", ".", "t", "x", "t">>
NAME_YU_TTC == <<"y", "u", ".", "t", "t", "c">>

NAME_HI_TXT == <<"h", "i", ".", "t", "x", "t">>
NAME_HI_R_TTF == <<"H", "i", "-", "R", ".", "t", "t", "f">>
NAME_HI_B_TTF == <<"H", "i", "-", "B", ".", "t", "t", "f">>
NAME_BR_TTC == <<"b", "r", ".", "t", "t", "c">>
NAME_CR_OTF == <<"c", "r", ".", "o", "t", "f">>
NAME_NOTO_TTF ==
    <<"N", "o", "t", "o", "S", "a", "n", "s", "J", "P", "-",
      "R", "e", "g", "u", "l", "a", "r", ".", "t", "t", "f">>

FontDirs == {"A", "B", "E", "N"}

\* The directories and names of the index and the lookup taken alone
IndexDirs == {"C", "D", "E", "N"}
IndexNames ==
    {<<"H", "i">>, <<"H", "i", " ", "R">>, <<"B", "r">>, <<"c", "r", "-", "x">>,
     <<"N", "o", "t", "o", " ", "S", "a", "n", "s", " ", "J", "P">>,
     <<"Z", "z">>, <<>>}

\* The font names asked for: two that the fonts of A carry, one that no font
\* carries, and the empty name
FontNames == {<<"M", "o">>, <<"F", "l">>, <<"Z", "z">>, <<>>}

\* os.path.isdir(font_dir)
IsDir(d) == d \in {"A", "B", "C", "D", "E"}

\* os.listdir(font_dir), in the order the operating system gives
ListDir(d) ==
    CASE d = "A" -> <<NAME_M1_TTF, NAME_N_TXT, NAME_FL_OTF>>
      [] d = "B" -> <<NAME_YU_TTC, NAME_M1_TTF>>
      [] d = "C" -> <<NAME_HI_TXT, NAME_HI_R_TTF, NAME_HI_B_TTF, NAME_BR_TTC,
                      NAME_NOTO_TTF>>
      [] d = "D" -> <<NAME_HI_B_TTF, NAME_CR_OTF>>
      [] d = "E" -> <<NAME_N_TXT>>
      [] OTHER -> <<>>

\* os.path.join(font_dir, filename)
PathJoin(d, f) == [dir |-> d, file |-> f]

\* os.path.isfile(path)
IsFile(p) == IsDir(p.dir) /\ InList(p.file, ListDir(p.dir))

NameRecord(full, family, sub, has_table) ==
    [full |-> full, family |-> family, sub |-> sub, has_name_table |-> has_table]

\* What is stored in a font file: whether fontTools opens it, the embedded
\* font resources with their name table, whether Pillow loads it ("ok",
\* "fail", or "flaky": an I/O error that comes and goes), and the advance of
\* its glyphs in 1/4 em.
FontFile(p) ==
    CASE p = PathJoin("A", NAME_M1_TTF) ->
            [opens |-> TRUE, pil |-> "ok", advance |-> 2,
             fonts |-> <<NameRecord(<<"M", "o", " ", "R">>, <<"M", "o">>, <<"R">>, TRUE)>>]
      [] p = PathJoin("A", NAME_FL_OTF) ->
            [opens |-> TRUE, pil |-> "flaky", advance |-> 3,
             fonts |-> <<NameRecord(<<>>, <<"F", "l">>, <<>>, TRUE)>>]
      [] p = PathJoin("B", NAME_M1_TTF) ->
            [opens |-> TRUE, pil |-> "ok", advance |-> 4,
             fonts |-> <<NameRecord(<<"G", "a", " ", "B">>, <<"G", "a">>, <<"B">>, TRUE)>>]
      [] p = PathJoin("B", NAME_YU_TTC) ->
            [opens |-> TRUE, pil |-> "fail", advance |-> 2,
             fonts |-> <<NameRecord(<<"Y", "u">>, <<"Y", "u">>, <<"R">>, TRUE),
                         NameRecord(<<"Y", "u">>, <<"Y", "u">>, <<"B">>, TRUE)>>]
      [] p = PathJoin("C", NAME_HI_R_TTF) ->
            [opens |-> TRUE, pil |-> "ok", advance |-> 2,
             fonts |-> <<NameRecord(<<"H", "i", " ", "R">>, <<"H", "i">>, <<"R">>, TRUE)>>]
      [] p \in {PathJoin("C", NAME_HI_B_TTF), PathJoin("D", NAME_HI_B_TTF)} ->
            [opens |-> TRUE, pil |-> "ok", advance |-> 2,
             fonts |-> <<NameRecord(<<"H", "i", " ", "B">>, <<"H", "i">>, <<"B">>, TRUE)>>]
      [] p = PathJoin("C", NAME_BR_TTC) ->
            [opens |-> TRUE, pil |-> "ok", advance |-> 2,
             fonts |-> <<NameRecord(<<"B", "r">>, <<"B", "r">>, <<"R">>, TRUE),
                         NameRecord(<<>>, <<>>, <<>>, FALSE)>>]
      [] OTHER ->
            [opens |-> FALSE, pil |-> "fail", advance |-> 0, fonts |-> <<>>]

----------------------------------------------------------------------------
(* Font name extraction and the font-name index                            *)

\* _extract_names_from_font: (full_name, family_name, subfamily_name)
ExtractNamesFromFont(font) == <<font.full, font.family, font.sub>>

\* The loop body of _get_font_names_from_file over the resources of a file;
\* a resource without a name table raises KeyError, which ends the loop and
\* keeps what was appended before.
RECURSIVE ReadFontResources(_, _)
ReadFontResources(fonts, results) ==
    IF fonts = <<>> THEN results
    ELSE IF ~Head(fonts).has_name_table THEN results
    ELSE LET names == ExtractNamesFromFont(Head(fonts))
         IN  ReadFontResources(Tail(fonts),
                IF names[1] # <<>> \/ names[2] # <<>>
                THEN Append(results, names) ELSE results)

\* _get_font_names_from_file
GetFontNamesFromFile(font_path) ==
    LET f == FontFile(font_path)
    IN  IF ~IsFile(font_path) \/ ~f.opens THEN <<>>
        ELSE IF EndsWith(StrLower(font_path.file), EXT_TTC)
             THEN ReadFontResources(f.fonts, <<>>)
             ELSE ReadFontResources(SubSeq(f.fonts, 1, 1), <<>>)

\* ttc = None, font = None
NoHandle == [none |-> TRUE]

\* The object TTCollection(font_path) or TTFont(font_path) returns
Handle(kind, font_path) == [kind |-> kind, path |-> font_path]

\* The errors the except clauses of _get_font_names_from_file catch
HandledErrors == {"FileNotFoundError", "PermissionError", "TTLibError", "KeyError"}

\* The loop over the resources under an environment in which reading the
\* names of the resource at position unexpected_at (0 for none) raises an
\* error that no except clause names; i is the position of Head(fonts)
RECURSIVE ReadResourcesUnder(_, _, _, _)
ReadResourcesUnder(fonts, results, i, unexpected_at) ==
    IF fonts = <<>> THEN [raised |-> "none", results |-> results]
    ELSE IF ~Head(fonts).has_name_table
    THEN [raised |-> "KeyError", results |-> results]
    ELSE IF i = unexpected_at
    THEN [raised |-> "UnexpectedError", results |-> results]
    ELSE ReadResourcesUnder(Tail(fonts),
            IF ExtractNamesFromFont(Head(fonts))[1] # <<>>
               \/ ExtractNamesFromFont(Head(fonts))[2] # <<>>
            THEN Append(results, ExtractNamesFromFont(Head(fonts))) ELSE results,
            i + 1, unexpected_at)

\* The state at the end of the try body: the error raised in it, results, the
\* locals ttc and font, and the objects whose constructor succeeded
AfterRead(read, ttc, font) ==
    [raised |-> read.raised, results |-> read.results, ttc |-> ttc, font |-> font,
     opened |-> {ttc, font} \ {NoHandle}]

\* The try body of _get_font_names_from_file
TryBody(font_path, unexpected_at) ==
    IF ~IsFile(font_path)
    THEN AfterRead([raised |-> "FileNotFoundError", results |-> <<>>], NoHandle, NoHandle)
    ELSE IF ~FontFile(font_path).opens
    THEN AfterRead([raised |-> "TTLibError", results |-> <<>>], NoHandle, NoHandle)
    ELSE IF EndsWith(StrLower(font_path.file), EXT_TTC)
    THEN AfterRead(ReadResourcesUnder(FontFile(font_path).fonts, <<>>, 1, unexpected_at),
                   Handle("TTCollection", font_path), NoHandle)
    ELSE AfterRead(ReadResourcesUnder(SubSeq(FontFile(font_path).fonts, 1, 1), <<>>, 1,
                                      unexpected_at),
                   NoHandle, Handle("TTFont", font_path))

\* A release at the end of the try body, which an exception skips
ClosedOnReturn(t) ==
    IF t.raised = "none" THEN {t.ttc, t.font} \ {NoHandle} ELSE {}

\* finally: if ttc is not None: ttc.close(); if font is not None: font.close()
Finally(t) ==
    (IF t.ttc # NoHandle THEN {t.ttc} ELSE {})
    \cup (IF t.font # NoHandle THEN {t.font} ELSE {})

\* The except clauses and `return results`: an error that is not caught
\* leaves the function after the finally block
ExitOf(t, closed) ==
    [raised |-> IF t.raised \in HandledErrors THEN "none" ELSE t.raised,
     results |-> IF t.raised \in HandledErrors \cup {"none"} THEN t.results ELSE <<>>,
     caught |-> IF t.raised \in HandledErrors THEN t.raised ELSE "none",
     opened |-> t.opened, closed |-> closed]

ClosedAtExit(t) == ExitOf(t, Finally(t))

\* _get_font_names_from_file with its file handles: what it returns or
\* raises, and the objects it opened and closed
ReadFontFile(font_path, unexpected_at) == ClosedAtExit(TryBody(font_path, unexpected_at))

EmptyMapping == <<>>

\* An insertion that appends the file name without looking for it in the list
AddToMappingAppending(mapping, name, filename) ==
    IF name = <<>> THEN mapping
    ELSE IF StrLower(name) \notin DOMAIN mapping
         THEN mapping @@ (StrLower(name) :> <<filename>>)
         ELSE [mapping EXCEPT ![StrLower(name)] = Append(@, filename)]

\* if key not in family_to_files: family_to_files[key] = []
\* if filename not in family_to_files[key]: family_to_files[key].append(filename)
AddToMapping(mapping, name, filename) ==
    LET key == StrLower(name)
    IN  IF name = <<>> THEN mapping
        ELSE IF key \notin DOMAIN mapping THEN mapping @@ (key :> <<filename>>)
        ELSE IF InList(filename, mapping[key]) THEN mapping
        ELSE [mapping EXCEPT ![key] = Append(@, filename)]

\* for full_name, family_name, _ in font_names: family name first, then full name
RECURSIVE AddFontNames(_, _, _)
AddFontNames(mapping, font_names, filename) ==
    IF font_names = <<>> THEN mapping
    ELSE LET full_name == Head(font_names)[1]
             family_name == Head(font_names)[2]
         IN  AddFontNames(
                AddToMapping(AddToMapping(mapping, family_name, filename),
                             full_name, filename),
                Tail(font_names), filename)

\* for filename in filenames: ...
RECURSIVE ScanFiles(_, _, _)
ScanFiles(font_dir, filenames, mapping) ==
    IF filenames = <<>> THEN mapping
    ELSE LET filename == Head(filenames)
         IN  ScanFiles(font_dir, Tail(filenames),
                IF HasFontExtension(filename)
                THEN AddFontNames(mapping,
                        GetFontNamesFromFile(PathJoin(font_dir, filename)), filename)
                ELSE mapping)

\* The scan of each directory on disk (the file system does not change, so
\* every scan of a directory gives the same mapping; computed once)
ScanOfDir ==
    [d \in FontDirs \cup IndexDirs |-> ScanFiles(d, ListDir(d), EmptyMapping)]

\* _build_font_name_mapping
BuildFontNameMapping(font_dir) ==
    IF font_dir = "" \/ ~IsDir(font_dir) THEN EmptyMapping
    ELSE ScanOfDir[font_dir]

\* Whether _build_font_name_mapping lists the directory (os.listdir)
ScansDirectory(font_dir) == font_dir # "" /\ IsDir(font_dir)

----------------------------------------------------------------------------
(* The cached index: initialize_font_system, get_font_name_mapping         *)

\* An index builder without the `already initialized` check
InitializeFontSystemAlways(mapping, font_dir) ==
    [mapping |-> BuildFontNameMapping(font_dir), built |-> TRUE]

\* initialize_font_system: the new value of _dynamic_font_name_to_file and
\* whether _build_font_name_mapping was called
InitializeFontSystem(mapping, font_dir) ==
    IF mapping # EmptyMapping
    THEN [mapping |-> mapping, built |-> FALSE]
    ELSE [mapping |-> BuildFontNameMapping(font_dir), built |-> TRUE]

\* get_font_name_mapping
GetFontNameMapping(mapping, font_dir) ==
    IF mapping = EmptyMapping /\ font_dir # ""
    THEN InitializeFontSystem(mapping, font_dir)
    ELSE [mapping |-> mapping, built |-> FALSE]

----------------------------------------------------------------------------
(* find_font_file                                                          *)

NoPath == [dir |-> "", file |-> <<>>]

\* A lookup that takes the first file of the key without looking on disk
FirstListedFile(font_dir, possible_files) ==
    IF possible_files = <<>> THEN NoPath
    ELSE PathJoin(font_dir, Head(possible_files))

\* for filename in possible_files: if os.path.isfile(font_path): return font_path
RECURSIVE FirstExistingFile(_, _)
FirstExistingFile(font_dir, possible_files) ==
    IF possible_files = <<>> THEN NoPath
    ELSE IF IsFile(PathJoin(font_dir, Head(possible_files)))
         THEN PathJoin(font_dir, Head(possible_files))
         ELSE FirstExistingFile(font_dir, Tail(possible_files))

\* A requested name compared as it is, spaces and hyphens kept
NamePartsVerbatim(font_name_lower) == font_name_lower

\* font_name_lower.replace(" ", "").replace("-", "")
NameParts(font_name_lower) == StrRemove(StrRemove(font_name_lower, <<" ">>), <<"-">>)

\* filename.lower().replace(" ", "").replace("-", "").replace(".ttc", "")
\*         .replace(".ttf", "").replace(".otf", "")
FileParts(filename) ==
    StrRemove(StrRemove(StrRemove(StrRemove(StrRemove(StrLower(filename),
        <<" ">>), <<"-">>), EXT_TTC), EXT_TTF), EXT_OTF)

\* The fallback loop over os.listdir(font_dir)
RECURSIVE FilenameHeuristic(_, _, _)
FilenameHeuristic(font_dir, filenames, font_name_lower) ==
    IF filenames = <<>> THEN NoPath
    ELSE LET filename == Head(filenames)
         IN  IF /\ HasFontExtension(filename)
                /\ \/ StrIn(NameParts(font_name_lower), FileParts(filename))
                   \/ StrIn(FileParts(filename), NameParts(font_name_lower))
             THEN PathJoin(font_dir, filename)
             ELSE FilenameHeuristic(font_dir, Tail(filenames), font_name_lower)

\* The fallback loop for each directory and requested name (computed once)
HeuristicOfDir ==
    [d \in FontDirs \cup IndexDirs |->
        [n \in {StrLower(name) : name \in FontNames \cup IndexNames} |->
            FilenameHeuristic(d, ListDir(d), n)]]

\* find_font_file: the path found (NoPath for None), the index after the
\* call, whether the index was built by the call, and the index consulted
\* if font_name_lower in font_mapping: the first of its files that exists
IndexedFile(font_mapping, font_name_lower, font_dir) ==
    IF font_name_lower \in DOMAIN font_mapping
    THEN FirstExistingFile(font_dir, font_mapping[font_name_lower])
    ELSE NoPath

\* The lookup in the index, then the fallback
LookUp(indexed, font_name_lower, font_dir) ==
    IF indexed # NoPath THEN indexed ELSE HeuristicOfDir[font_dir][font_name_lower]

\* find_font_file from `font_mapping = get_font_name_mapping(font_dir)` on
FindWithMapping(got, font_name_lower, font_dir) ==
    [path |-> LookUp(IndexedFile(got.mapping, font_name_lower, font_dir),
                     font_name_lower, font_dir),
     mapping |-> got.mapping, built |-> got.built, consulted |-> TRUE]

FindFontFile(mapping, font_name, font_dir) ==
    IF font_name = <<>> \/ font_dir = "" \/ ~IsDir(font_dir)
    THEN [path |-> NoPath, mapping |-> mapping, built |-> FALSE, consulted |-> FALSE]
    ELSE FindWithMapping(GetFontNameMapping(mapping, font_dir), StrLower(font_name),
                         font_dir)

----------------------------------------------------------------------------
(* get_font, measure_text_width, clear_font_cache                          *)

EmptyCache == <<>>

NoFont == [path |-> NoPath, px |-> 0, serial |-> 0]

\* int(font_size_pt * DEFAULT_DPI / 72), for a size that is an int
FontSizePx(font_size_pt) ==
    IF font_size_pt >= 0 THEN (font_size_pt * DEFAULT_DPI) \div 72
    ELSE 0 - ((0 - font_size_pt * DEFAULT_DPI) \div 72)

\* Whether ImageFont.truetype(font_path, size) succeeds; io_errors is the set
\* of pixel sizes at which the environment answers a flaky file with an
\* I/O error during this call
TruetypeLoads(font_path, font_size_px, io_errors) ==
    /\ IsFile(font_path)
    /\ \/ FontFile(font_path).pil = "ok"
       \/ FontFile(font_path).pil = "flaky" /\ font_size_px \notin io_errors

\* The object ImageFont.truetype returns: a new handle each time it is called
NewHandle(cache, cache_key) ==
    [path |-> cache_key[1], px |-> cache_key[2],
     serial |-> IF cache_key \in DOMAIN cache THEN cache[cache_key].serial + 1 ELSE 1]

\* get_font: the font returned (NoFont for None) and the cache after the call
\* _font_cache[cache_key] = font; return font
StoreFont(cache, cache_key, font) ==
    [font |-> font, cache |-> (cache_key :> font) @@ cache, loaded |-> TRUE]

\* A get_font that does not look into the cache before loading
GetFontByKeyUncached(cache, cache_key, io_errors) ==
    IF TruetypeLoads(cache_key[1], cache_key[2], io_errors)
    THEN StoreFont(cache, cache_key, NewHandle(cache, cache_key))
    ELSE [font |-> NoFont, cache |-> cache, loaded |-> FALSE]

\* A get_font that remembers a failed load under its key
GetFontByKeyCachingFailure(cache, cache_key, io_errors) ==
    IF cache_key \in DOMAIN cache
    THEN [font |-> cache[cache_key], cache |-> cache, loaded |-> FALSE]
    ELSE IF TruetypeLoads(cache_key[1], cache_key[2], io_errors)
         THEN StoreFont(cache, cache_key, NewHandle(cache, cache_key))
         ELSE [font |-> NoFont, cache |-> (cache_key :> NoFont) @@ cache,
               loaded |-> FALSE]

\* get_font from `if cache_key in _font_cache` on
GetFontByKey(cache, cache_key, io_errors) ==
    IF cache_key \in DOMAIN cache
    THEN [font |-> cache[cache_key], cache |-> cache, loaded |-> FALSE]
    ELSE IF TruetypeLoads(cache_key[1], cache_key[2], io_errors)
         THEN StoreFont(cache, cache_key, NewHandle(cache, cache_key))
         ELSE [font |-> NoFont, cache |-> cache, loaded |-> FALSE]

GetFont(cache, font_path, font_size_pt, io_errors) ==
    GetFontByKey(cache, <<font_path, FontSizePx(font_size_pt)>>, io_errors)

\* font.getbbox(text): bbox[2] - bbox[0], the glyph advances added up
BBoxWidth(font, text) == (Len(text) * font.px * FontFile(font.path).advance) \div 4

\* measure_text_width: ok = FALSE for None
MeasureWithFont(got, text) ==
    IF got.font = NoFont
    THEN [ok |-> FALSE, width |-> 0, cache |-> got.cache]
    ELSE [ok |-> TRUE, width |-> BBoxWidth(got.font, text), cache |-> got.cache]

MeasureTextWidth(cache, text, font_path, font_size_pt, io_errors) ==
    MeasureWithFont(GetFont(cache, font_path, font_size_pt, io_errors), text)

\* A reset that forgets the font-name index
ClearFontCacheOnly(cache, mapping) ==
    [cache |-> EmptyCache, mapping |-> mapping,
     font_cache_count |-> Cardinality(DOMAIN cache),
     mapping_count |-> Cardinality(DOMAIN mapping)]

\* clear_font_cache: _font_cache.clear(); _dynamic_font_name_to_file.clear(),
\* and the two counts it prints
ClearFontCache(cache, mapping) ==
    [cache |-> EmptyCache, mapping |-> EmptyMapping,
     font_cache_count |-> Cardinality(DOMAIN cache),
     mapping_count |-> Cardinality(DOMAIN mapping)]

----------------------------------------------------------------------------
(* calculate_fitting_font_size                                             *)

\* width_px = width_pt * pt_to_px, with pt_to_px = DEFAULT_DPI / 72
WidthPx(width_pt) == RMul(width_pt, Rat(DEFAULT_DPI, 72))

\* lines = max(1, int((text_width_px + width_px - 1) // width_px))
LinesNeeded(text_width_px, width_px) ==
    Max(1, RFloorDiv(RAdd(RAdd(RInt(text_width_px), width_px), RInt(0 - 1)), width_px))

\* The loop `for item in items` at one font size: the lines of each item, or
\* the error that ends the call
RECURSIVE MeasureItems(_, _, _, _, _, _, _)

\* A loop body that skips an item it could not measure
MeasuredItemSkipping(m, items, font_path, font_size, width_px, io_errors, lines_per_item) ==
    IF ~m.ok
    THEN MeasureItems(m.cache, Tail(items), font_path, font_size, width_px,
                      io_errors, lines_per_item)
    ELSE IF RIsZero(width_px)
    THEN [status |-> "ZeroDivisionError", lines_per_item |-> lines_per_item,
          cache |-> m.cache]
    ELSE MeasureItems(m.cache, Tail(items), font_path, font_size, width_px, io_errors,
                      Append(lines_per_item, LinesNeeded(m.width, width_px)))

\* The loop body, from `if text_width_px is None` on; m is what
\* measure_text_width gave for the first of items
MeasuredItem(m, items, font_path, font_size, width_px, io_errors, lines_per_item) ==
    IF ~m.ok
    THEN [status |-> "MeasurementFailure", lines_per_item |-> lines_per_item,
          cache |-> m.cache]
    ELSE IF RIsZero(width_px)
    THEN [status |-> "ZeroDivisionError", lines_per_item |-> lines_per_item,
          cache |-> m.cache]
    ELSE MeasureItems(m.cache, Tail(items), font_path, font_size, width_px, io_errors,
                      Append(lines_per_item, LinesNeeded(m.width, width_px)))

MeasureItems(cache, items, font_path, font_size, width_px, io_errors, lines_per_item) ==
    IF items = <<>>
    THEN [status |-> "ok", lines_per_item |-> lines_per_item, cache |-> cache]
    ELSE MeasuredItem(
            MeasureTextWidth(cache, Head(items), font_path, font_size, io_errors),
            items, font_path, font_size, width_px, io_errors, lines_per_item)

RECURSIVE SumSeq(_)
SumSeq(xs) == IF xs = <<>> THEN 0 ELSE Head(xs) + SumSeq(Tail(xs))

\* A line height that shrinks as the font grows
LineHeightShrinking(req, font_size) ==
    RMul(RMul(RInt(2 * req.max_size - font_size), req.line_height_factor),
         req.line_spacing)

\* line_height at one font size
LineHeight(req, font_size) ==
    IF req.is_fixed_line_spacing
    THEN req.line_spacing
    ELSE RMul(RMul(RInt(font_size), req.line_height_factor), req.line_spacing)

\* Paragraph spacing counted once per item, after the last one too
TotalParaSpacingPerItem(req) ==
    RMul(RAdd(req.space_before_pt, req.space_after_pt), RInt(Len(req.items)))

\* total_para_spacing = (space_before_pt + space_after_pt) * (num_paragraphs - 1)
TotalParaSpacing(req) ==
    RMul(RAdd(req.space_before_pt, req.space_after_pt), RInt(Len(req.items) - 1))

\* total_height_needed = total_lines * line_height + total_para_spacing
TotalHeightNeeded(req, font_size, total_lines) ==
    RAdd(RMul(RInt(total_lines), LineHeight(req, font_size)), TotalParaSpacing(req))

\* if total_height_needed <= height_pt
Fits(total_height_needed, height_pt) == RLeq(total_height_needed, height_pt)

\* A scan that starts at the floor instead of max_size
FirstCandidateAtFloor(max_size) == MIN_FONT_SIZE

\* The first candidate: range(max_size, MIN_FONT_SIZE - 1, -1)
FirstCandidate(max_size) == max_size

\* A scan that gives the ceiling back when nothing fits
FloorSizeIsCeiling(req) == req.max_size

\* return MIN_FONT_SIZE, after the loop
FloorSize(req) == MIN_FONT_SIZE

\* The loop `for font_size in range(max_size, MIN_FONT_SIZE - 1, -1)` from
\* font_size on; log holds what has been printed for the sizes tried so far
RECURSIVE ScanSizes(_, _, _, _, _, _, _)

\* What is printed for one font size
LogEntry(font_size, lines_per_item, total_height_needed, height_pt) ==
    [font_size |-> font_size, lines_per_item |-> lines_per_item,
     total_height |-> total_height_needed,
     fit |-> Fits(total_height_needed, height_pt)]

\* The end of the loop body: return font_size if it fits, else go on
Decide(cache, req, font_path, width_px, font_size, io_errors, log, entry) ==
    IF entry.fit
    THEN [outcome |-> "return", size |-> font_size, fitted |-> TRUE,
          cache |-> cache, log |-> Append(log, entry)]
    ELSE ScanSizes(cache, req, font_path, width_px, font_size - 1, io_errors,
                   Append(log, entry))

\* The loop body after the items were measured (m)
ScanStep(m, req, font_path, width_px, font_size, io_errors, log) ==
    IF m.status # "ok"
    THEN [outcome |-> m.status, size |-> 0, fitted |-> FALSE,
          cache |-> m.cache, log |-> log]
    ELSE Decide(m.cache, req, font_path, width_px, font_size, io_errors, log,
                LogEntry(font_size, m.lines_per_item,
                         TotalHeightNeeded(req, font_size, SumSeq(m.lines_per_item)),
                         req.height_pt))

ScanSizes(cache, req, font_path, width_px, font_size, io_errors, log) ==
    IF font_size < MIN_FONT_SIZE
    THEN [outcome |-> "return", size |-> FloorSize(req), fitted |-> FALSE,
          cache |-> cache, log |-> log]
    ELSE ScanStep(MeasureItems(cache, req.items, font_path, font_size, width_px,
                               io_errors, <<>>),
                  req, font_path, width_px, font_size, io_errors, log)

\* The result of the call: what the scan gave, with the index find_font_file left
Scanned(r, found) ==
    [outcome |-> r.outcome, size |-> r.size, fitted |-> r.fitted,
     cache |-> r.cache, log |-> r.log,
     mapping |-> found.mapping, built |-> found.built, font_path |-> found.path]

\* A fitting call that goes on to measure with whatever find_font_file gave
FitWithFontUnchecked(cache, found, req, io_errors) ==
    Scanned(ScanSizes(cache, req, found.path, WidthPx(req.width_pt),
                      FirstCandidate(req.max_size), io_errors, <<>>),
            found)

\* calculate_fitting_font_size after find_font_file (found)
FitWithFont(cache, found, req, io_errors) ==
    IF found.path = NoPath
    THEN [outcome |-> "FontNotFound", size |-> 0, fitted |-> FALSE,
          cache |-> cache, log |-> <<>>,
          mapping |-> found.mapping, built |-> found.built, font_path |-> NoPath]
    ELSE Scanned(ScanSizes(cache, req, found.path, WidthPx(req.width_pt),
                           FirstCandidate(req.max_size), io_errors, <<>>),
                 found)

\* calculate_fitting_font_size: the outcome ("return" with a size, or the
\* error raised), the two caches after the call, and the lines printed
CalculateFittingFontSize(cache, mapping, req, io_errors) ==
    FitWithFont(cache, FindFontFile(mapping, req.font_name, req.font_dir), req,
                io_errors)

----------------------------------------------------------------------------
(* The inputs of the calls                                                 *)

MaxMaxSize == 8          \* the largest max_size of a request taken alone
MaxSharedSize == 7       \* the largest font size asked for while caches are shared
MaxCacheEntries == 2     \* the font handles held between two resets

MaxSizes == (MIN_FONT_SIZE - 1)..MaxMaxSize
SharedFontSizes == MIN_FONT_SIZE..MaxSharedSize

\* No I/O error during the call, or an I/O error at one pixel size
IoChoicesUpTo(max_size) ==
    {{}} \cup {{FontSizePx(s)} : s \in MIN_FONT_SIZE..max_size}

\* The I/O errors of one load: none, or (for a file whose I/O errors come
\* and go) an error at the pixel size asked for
IoChoicesAt(font_path, font_size_pt) ==
    IF FontFile(font_path).pil = "flaky"
    THEN {{}, {FontSizePx(font_size_pt)}}
    ELSE {{}}

TEXT_SHORT == <<"a">>
TEXT_LONG == <<"a", "b", "c", "a", "b", "c">>

ItemLists == {<<>>, <<TEXT_LONG>>, <<TEXT_LONG, TEXT_SHORT>>}

\* width_pt: -10 pt, 0, 10 pt (13 1/3 pixels) and 13.5 pt (18 pixels)
Widths == {Rat(0 - 10, 1), Rat(0, 1), Rat(10, 1), Rat(27, 2)}
Heights == {Rat(5, 1), Rat(20, 1), Rat(50, 1)}

\* (is_fixed_line_spacing, line_spacing, line_height_factor)
SpacingChoices ==
    {<<FALSE, Rat(1, 1), Rat(12, 10)>>,
     <<FALSE, Rat(3, 2), Rat(12, 10)>>,
     <<TRUE, Rat(14, 1), Rat(12, 10)>>}

\* (space_before_pt, space_after_pt)
ParaSpacingChoices == {<<Rat(0, 1), Rat(0, 1)>>, <<Rat(3, 1), Rat(2, 1)>>}

Request(w, h, items, max_size, name, dir, sp, ps) ==
    [width_pt |-> w, height_pt |-> h, items |-> items, max_size |-> max_size,
     font_name |-> name, font_dir |-> dir,
     line_spacing |-> sp[2], space_before_pt |-> ps[1], space_after_pt |-> ps[2],
     line_height_factor |-> sp[3], is_fixed_line_spacing |-> sp[1]]

\* Every request of the fitting engine
Requests ==
    {Request(w, h, items, max_size, name, dir, sp, ps) :
        w \in Widths, h \in Heights, items \in ItemLists, max_size \in MaxSizes,
        name \in FontNames, dir \in FontDirs, sp \in SpacingChoices,
        ps \in ParaSpacingChoices}

\* The requests made while the caches are shared between calls: one geometry,
\* every font name in every directory
SharedRequests ==
    {Request(Rat(27, 2), Rat(28, 1), <<TEXT_LONG, TEXT_SHORT>>, max_size, name, dir,
             <<FALSE, Rat(1, 1), Rat(12, 10)>>, <<Rat(3, 1), Rat(2, 1)>>) :
        max_size \in {MaxSharedSize}, name \in FontNames, dir \in FontDirs}

\* The paths get_font and measure_text_width are called with directly
DirectPaths ==
    {PathJoin("A", NAME_M1_TTF), PathJoin("A", NAME_FL_OTF), PathJoin("B", NAME_YU_TTC)}

\* The values _dynamic_font_name_to_file takes
ReachableMappings ==
    {EmptyMapping, BuildFontNameMapping("A"), BuildFontNameMapping("B")}

\* What a call of calculate_fitting_font_size leaves to see, the caches apart
Visible(r) ==
    [outcome |-> r.outcome, size |-> r.size, fitted |-> r.fitted, log |-> r.log,
     built |-> r.built, font_path |-> r.font_path]

----------------------------------------------------------------------------
(* The calls, as actions on the two module-level caches                    *)

Init ==
    /\ font_cache = EmptyCache
    /\ dynamic_font_name_to_file = EmptyMapping
    /\ last = [op |-> "import", args |-> <<>>, res |-> <<>>, parity |-> 0]

CacheBounded(cache) == Cardinality(DOMAIN cache) <= MaxCacheEntries

\* The record of a call; parity is the number of calls made so far modulo 2,
\* which tells a call from the state it started in
Called(op, args, res) ==
    [op |-> op, args |-> args, res |-> res, parity |-> 1 - last.parity]

\* The record of a call that loads fonts, with the pixel sizes at which the
\* environment answered a load with an I/O error
CalledUnder(op, args, res, io_errors) ==
    [op |-> op, args |-> args, res |-> res, parity |-> 1 - last.parity,
     io_errors |-> io_errors]

SetIndex(r, op, args, res) ==
    /\ dynamic_font_name_to_file' = r.mapping
    /\ last' = Called(op, args, res)
    /\ UNCHANGED font_cache

SetFontCache(r, op, args, res, io_errors) ==
    /\ CacheBounded(r.cache)
    /\ font_cache' = r.cache
    /\ last' = CalledUnder(op, args, res, io_errors)
    /\ UNCHANGED dynamic_font_name_to_file

SetBoth(r, op, args, res) ==
    /\ CacheBounded(r.cache)
    /\ font_cache' = r.cache
    /\ dynamic_font_name_to_file' = r.mapping
    /\ last' = Called(op, args, res)

Initialized(r, font_dir) ==
    SetIndex(r, "initialize_font_system", [font_dir |-> font_dir],
             [built |-> r.built, scanned |-> r.built /\ ScansDirectory(font_dir)])

DoInitializeFontSystem(font_dir) ==
    Initialized(InitializeFontSystem(dynamic_font_name_to_file, font_dir), font_dir)

GotMapping(r, font_dir) ==
    SetIndex(r, "get_font_name_mapping", [font_dir |-> font_dir],
             [mapping |-> r.mapping, built |-> r.built])

DoGetFontNameMapping(font_dir) ==
    GotMapping(GetFontNameMapping(dynamic_font_name_to_file, font_dir), font_dir)

Found(r, font_name, font_dir) ==
    SetIndex(r, "find_font_file", [font_name |-> font_name, font_dir |-> font_dir],
             [path |-> r.path, built |-> r.built, consulted |-> r.consulted])

DoFindFontFile(font_name, font_dir) ==
    Found(FindFontFile(dynamic_font_name_to_file, font_name, font_dir),
          font_name, font_dir)

GotFont(r, font_path, font_size_pt, io_errors) ==
    SetFontCache(r, "get_font",
                 [font_path |-> font_path, font_size_pt |-> font_size_pt],
                 [font |-> r.font, loaded |-> r.loaded], io_errors)

DoGetFont(font_path, font_size_pt, io_errors) ==
    GotFont(GetFont(font_cache, font_path, font_size_pt, io_errors),
            font_path, font_size_pt, io_errors)

Measured(r, text, font_path, font_size_pt, io_errors) ==
    SetFontCache(r, "measure_text_width",
                 [text |-> text, font_path |-> font_path,
                  font_size_pt |-> font_size_pt],
                 [ok |-> r.ok, width |-> r.width], io_errors)

DoMeasureTextWidth(text, font_path, font_size_pt, io_errors) ==
    Measured(MeasureTextWidth(font_cache, text, font_path, font_size_pt, io_errors),
             text, font_path, font_size_pt, io_errors)

Cleared(r) ==
    /\ font_cache' = r.cache
    /\ dynamic_font_name_to_file' = r.mapping
    /\ last' = Called("clear_font_cache", <<>>,
                      [font_cache_count |-> r.font_cache_count,
                       mapping_count |-> r.mapping_count])

DoClearFontCache == Cleared(ClearFontCache(font_cache, dynamic_font_name_to_file))

Calculated(r, req) ==
    SetBoth(r, "calculate_fitting_font_size", req, Visible(r))

DoCalculateFittingFontSize(req, io_errors) ==
    Calculated(CalculateFittingFontSize(font_cache, dynamic_font_name_to_file, req,
                                        io_errors), req)

Next ==
    \/ \E font_dir \in FontDirs : DoInitializeFontSystem(font_dir)
    \/ \E font_dir \in FontDirs : DoGetFontNameMapping(font_dir)
    \/ \E font_name \in FontNames, font_dir \in FontDirs :
            DoFindFontFile(font_name, font_dir)
    \/ \E font_path \in DirectPaths, font_size_pt \in SharedFontSizes :
       \E io_errors \in IoChoicesAt(font_path, font_size_pt) :
            DoGetFont(font_path, font_size_pt, io_errors)
    \/ \E text \in {TEXT_LONG}, font_path \in DirectPaths,
          font_size_pt \in SharedFontSizes :
       \E io_errors \in IoChoicesAt(font_path, font_size_pt) :
            DoMeasureTextWidth(text, font_path, font_size_pt, io_errors)
    \/ DoClearFontCache
    \/ \E req \in SharedRequests, io_errors \in IoChoicesUpTo(MaxSharedSize) :
            DoCalculateFittingFontSize(req, io_errors)

Spec == Init /\ [][Next]_vars

----------------------------------------------------------------------------
(* The index and the lookup taken alone, over directories whose files      *)
(* share names, break off or cannot be read                                *)

\* The paths _get_font_names_from_file is called with: every file name in
\* both directories, so that some paths name no file
IndexPaths ==
    {PathJoin(d, f) : d \in {"C", "D"},
                      f \in {NAME_HI_R_TTF, NAME_HI_B_TTF, NAME_BR_TTC, NAME_CR_OTF,
                              NAME_NOTO_TTF}}

Built(r, font_dir) ==
    /\ last' = Called("_build_font_name_mapping", [font_dir |-> font_dir],
                      [mapping |-> r])
    /\ UNCHANGED <<font_cache, dynamic_font_name_to_file>>

DoBuildFontNameMapping(font_dir) == Built(BuildFontNameMapping(font_dir), font_dir)

\* The positions at which the environment raises an unexpected error while
\* the names of a resource are read: none, the first or the second resource
UnexpectedAt == {0, 1, 2}

GotNames(r, font_path, unexpected_at) ==
    /\ last' = Called("_get_font_names_from_file",
                      [font_path |-> font_path, unexpected_at |-> unexpected_at], r)
    /\ UNCHANGED <<font_cache, dynamic_font_name_to_file>>

DoGetFontNamesFromFile(font_path) ==
    \E unexpected_at \in UnexpectedAt :
        GotNames(ReadFontFile(font_path, unexpected_at), font_path, unexpected_at)

NextIndex ==
    \/ \E font_dir \in IndexDirs : DoInitializeFontSystem(font_dir)
    \/ \E font_name \in IndexNames, font_dir \in IndexDirs :
            DoFindFontFile(font_name, font_dir)
    \/ DoClearFontCache
    \/ \E font_dir \in IndexDirs : DoBuildFontNameMapping(font_dir)
    \/ \E font_path \in IndexPaths : DoGetFontNamesFromFile(font_path)

SpecIndex == Init /\ [][NextIndex]_vars

----------------------------------------------------------------------------
(* calculate_fitting_font_size as a function of its request: every request,*)
(* started with each value the index takes and an empty font cache         *)

InitFit ==
    /\ font_cache = EmptyCache
    /\ dynamic_font_name_to_file \in ReachableMappings
    /\ \E req \in Requests :
            last = [op |-> "request", args |-> req, res |-> <<>>, parity |-> 0]

Applied(r, req, io_errors) ==
    /\ font_cache' = r.cache
    /\ dynamic_font_name_to_file' = r.mapping
    /\ last' = CalledUnder("calculate_fitting_font_size", req, Visible(r), io_errors)

ApplyCalculateFittingFontSize(io_errors) ==
    /\ last.op = "request"
    /\ Applied(CalculateFittingFontSize(font_cache, dynamic_font_name_to_file,
                                        last.args, io_errors), last.args, io_errors)

NextFit ==
    \E io_errors \in IoChoicesUpTo(MaxMaxSize) : ApplyCalculateFittingFontSize(io_errors)

SpecFit == InitFit /\ [][NextFit]_vars

----------------------------------------------------------------------------
(* msoffice/pptx/pptx_get_shape_font.py: get_shape_font.  An Optional[str] *)
(* is a character sequence, or None; an rPr or defRPr element is a record  *)
(* of the typeface attributes of its a:ea and a:latin children (None where *)
(* the child or the attribute is missing), or NoRPr where the element, or  *)
(* an element on the way to it, is missing.                                *)

None == <<"None">>

\* bool(value) for an Optional[str]
Truthy(value) == value # None /\ value # <<>>

\* typeface.startswith("+")
StartsWithPlus(typeface) == Len(typeface) > 0 /\ typeface[1] = "+"

REF_MJ_LT == <<"+", "m", "j", "-", "l", "t">>
REF_MN_LT == <<"+", "m", "n", "-", "l", "t">>
REF_MJ_EA == <<"+", "m", "j", "-", "e", "a">>
REF_MN_EA == <<"+", "m", "n", "-", "e", "a">>

\* theme_fonts is None
NoTheme == [absent |-> TRUE]

\* theme_ref_map, and theme_fonts.get(theme_ref_map[typeface])
ThemeRefMap(typeface, theme_fonts) ==
    CASE typeface = REF_MJ_LT -> theme_fonts.major_latin
      [] typeface = REF_MN_LT -> theme_fonts.minor_latin
      [] typeface = REF_MJ_EA -> theme_fonts.major_ea
      [] typeface = REF_MN_EA -> theme_fonts.minor_ea
      [] OTHER -> None

\* _resolve_theme_font_reference
ResolveThemeFontReference(typeface, theme_fonts) ==
    IF ~Truthy(typeface) \/ theme_fonts = NoTheme THEN None
    ELSE ThemeRefMap(typeface, theme_fonts)

\* `if resolved: return resolved`, else go on
ResolvedOrNone(resolved) == IF Truthy(resolved) THEN resolved ELSE None

\* A typeface taken as it is, theme reference or not
FromTypefaceVerbatim(typeface, theme_fonts) ==
    IF ~Truthy(typeface) THEN None ELSE typeface

\* What one typeface attribute gives: the name to return, or None to go on
FromTypeface(typeface, theme_fonts) ==
    IF ~Truthy(typeface) THEN None
    ELSE IF StartsWithPlus(typeface)
         THEN ResolvedOrNone(ResolveThemeFontReference(typeface, theme_fonts))
         ELSE typeface

NoRPr == [absent |-> TRUE]

\* `a or b` for two Optional[str]
PyOr(a, b) == IF Truthy(a) THEN a ELSE b

\* An extraction that tries the Latin typeface first
GetFontFromRprLatinFirst(rpr_elem, theme_fonts) ==
    IF rpr_elem = NoRPr THEN None
    ELSE PyOr(FromTypeface(rpr_elem.latin, theme_fonts),
              FromTypeface(rpr_elem.ea, theme_fonts))

\* _get_font_from_rpr: East Asian first, then Latin
GetFontFromRpr(rpr_elem, theme_fonts) ==
    IF rpr_elem = NoRPr THEN None
    ELSE PyOr(FromTypeface(rpr_elem.ea, theme_fonts),
              FromTypeface(rpr_elem.latin, theme_fonts))

\* 4. the theme fonts: minor_ea or major_ea or minor_latin or major_latin
FromTheme(theme_fonts) ==
    IF theme_fonts = NoTheme THEN None
    ELSE PyOr(theme_fonts.minor_ea,
            PyOr(theme_fonts.major_ea,
               PyOr(theme_fonts.minor_latin, theme_fonts.major_latin)))

\* 3. the text frame's lstStyle > lvl1pPr > defRPr, then the theme
FromListStyle(shape, theme_fonts) ==
    IF Truthy(GetFontFromRpr(shape.lst_def_rpr, theme_fonts))
    THEN GetFontFromRpr(shape.lst_def_rpr, theme_fonts)
    ELSE FromTheme(theme_fonts)

\* A resolver that asks the list style before the paragraph
FromParagraphAfterListStyle(shape, theme_fonts) ==
    IF Truthy(GetFontFromRpr(shape.lst_def_rpr, theme_fonts))
    THEN GetFontFromRpr(shape.lst_def_rpr, theme_fonts)
    ELSE IF Truthy(GetFontFromRpr(shape.def_rpr, theme_fonts))
    THEN GetFontFromRpr(shape.def_rpr, theme_fonts)
    ELSE FromTheme(theme_fonts)

\* 2. the first paragraph's pPr > defRPr, then the levels below
FromParagraph(shape, theme_fonts) ==
    IF Truthy(GetFontFromRpr(shape.def_rpr, theme_fonts))
    THEN GetFontFromRpr(shape.def_rpr, theme_fonts)
    ELSE FromListStyle(shape, theme_fonts)

\* run.font.name of python-pptx: the Latin typeface of the run's rPr
RunFontName(run) == IF run.rpr = NoRPr THEN None ELSE run.rpr.latin

\* `if run.font.name:` ..., then the levels below
FromRunFontName(shape, theme_fonts) ==
    IF Truthy(FromTypeface(RunFontName(shape.runs[1]), theme_fonts))
    THEN FromTypeface(RunFontName(shape.runs[1]), theme_fonts)
    ELSE FromParagraph(shape, theme_fonts)

\* 1. the first run's rPr, then the levels below
FromRun(shape, theme_fonts) ==
    IF shape.runs = <<>> THEN FromParagraph(shape, theme_fonts)
    ELSE IF Truthy(GetFontFromRpr(shape.runs[1].rpr, theme_fonts))
    THEN GetFontFromRpr(shape.runs[1].rpr, theme_fonts)
    ELSE FromRunFontName(shape, theme_fonts)

\* get_shape_font
GetShapeFont(shape, theme_fonts) ==
    IF ~shape.has_text_frame THEN None
    ELSE IF shape.paragraphs = 0 THEN None
    ELSE FromRun(shape, theme_fonts)

----------------------------------------------------------------------------
(* get_shape_font as a function of the shape and the theme fonts            *)

\* The names each source carries, one name per source
RUN_EA == <<"R", "e">>
RUN_LATIN == <<"R", "l">>
PARA_EA == <<"P", "e">>
PARA_LATIN == <<"P", "l">>
LIST_EA == <<"L", "e">>
LIST_LATIN == <<"L", "l">>
THEME_MINOR_EA == <<"T", "n", "e">>
THEME_MAJOR_EA == <<"T", "j", "e">>
THEME_MINOR_LATIN == <<"T", "n", "l">>
THEME_MAJOR_LATIN == <<"T", "j", "l">>

\* An unmapped theme reference
REF_UNMAPPED == <<"+", "z", "z">>

\* The rPr or defRPr elements of one level
RPrs(ea_name, latin_name) ==
    {NoRPr} \cup
    [ea : {None, <<>>, ea_name, REF_MN_EA, REF_UNMAPPED},
     latin : {None, latin_name, REF_MJ_LT}]

\* What get_theme_fonts gives (each entry None, empty or a name), or no theme
ThemeFonts ==
    {NoTheme} \cup
    [minor_ea : {None, <<>>, THEME_MINOR_EA},
     major_ea : {<<>>, THEME_MAJOR_EA},
     minor_latin : {None, THEME_MINOR_LATIN},
     major_latin : {<<>>, THEME_MAJOR_LATIN}]

Shape(runs, def_rpr, lst_def_rpr) ==
    [has_text_frame |-> TRUE, paragraphs |-> 1, runs |-> runs,
     def_rpr |-> def_rpr, lst_def_rpr |-> lst_def_rpr]

\* A shape without text frame, a text frame without paragraphs, and the
\* shapes with a first paragraph
Shapes ==
    {[has_text_frame |-> FALSE, paragraphs |-> 0, runs |-> <<>>,
      def_rpr |-> NoRPr, lst_def_rpr |-> NoRPr],
     [has_text_frame |-> TRUE, paragraphs |-> 0, runs |-> <<>>,
      def_rpr |-> NoRPr, lst_def_rpr |-> NoRPr]}
    \cup {Shape(runs, def_rpr, lst_def_rpr) :
            runs \in {<<>>} \cup {<<[rpr |-> rpr]>> : rpr \in RPrs(RUN_EA, RUN_LATIN)},
            def_rpr \in RPrs(PARA_EA, PARA_LATIN),
            lst_def_rpr \in RPrs(LIST_EA, LIST_LATIN)}

InitShape ==
    /\ font_cache = EmptyCache
    /\ dynamic_font_name_to_file = EmptyMapping
    /\ \E shape \in Shapes, theme_fonts \in ThemeFonts :
            last = [op |-> "request",
                    args |-> [shape |-> shape, theme_fonts |-> theme_fonts],
                    res |-> <<>>, parity |-> 0]

GotShapeFont(font) ==
    /\ last' = Called("get_shape_font", last.args, [font |-> font])
    /\ UNCHANGED <<font_cache, dynamic_font_name_to_file>>

ApplyGetShapeFont ==
    /\ last.op = "request"
    /\ GotShapeFont(GetShapeFont(last.args.shape, last.args.theme_fonts))

NextShape == ApplyGetShapeFont

SpecShape == InitShape /\ [][NextShape]_vars

----------------------------------------------------------------------------
(* pptx_get_shape_font.py: get_placeholder_paragraph_defaults.  An XML     *)
(* element is a record of what the function reads from it, or NoElement    *)
(* where find() gives None; the val attribute is a character sequence, or  *)
(* None where it is missing.                                               *)

LINE_SPACING_TYPE_RATIO == "ratio"
LINE_SPACING_TYPE_FIXED == "fixed_pt"
LINE_SPACING_TYPE_DEFAULT == "default"

NoElement == [absent |-> TRUE]

\* line_spacing is None
NoValue == [none |-> TRUE]

Digits == <<"0", "1", "2", "3", "4", "5", "6", "7", "8", "9">>

IsDigit(c) == \E i \in 1..Len(Digits) : Digits[i] = c

DigitValue(c) == (CHOOSE i \in 1..Len(Digits) : Digits[i] = c) - 1

\* The value of a string of decimal digits
RECURSIVE DigitsValue(_, _)
DigitsValue(str, acc) ==
    IF str = <<>> THEN acc
    ELSE DigitsValue(Tail(str), acc * 10 + DigitValue(Head(str)))

\* str.strip() of blanks
RECURSIVE StripBlanks(_)
StripBlanks(str) ==
    IF str # <<>> /\ Head(str) = " " THEN StripBlanks(Tail(str))
    ELSE IF str # <<>> /\ str[Len(str)] = " "
         THEN StripBlanks(SubSeq(str, 1, Len(str) - 1))
         ELSE str

\* int() of a string already stripped: an optional sign, then digits only
IntOfStripped(str) ==
    IF str # <<>> /\ Head(str) \in {"+", "-"}
    THEN IF Tail(str) # <<>> /\ \A i \in 1..Len(Tail(str)) : IsDigit(Tail(str)[i])
         THEN [error |-> "none",
               value |-> IF Head(str) = "-" THEN 0 - DigitsValue(Tail(str), 0)
                         ELSE DigitsValue(Tail(str), 0)]
         ELSE [error |-> "ValueError", value |-> 0]
    ELSE IF str # <<>> /\ \A i \in 1..Len(str) : IsDigit(str[i])
         THEN [error |-> "none", value |-> DigitsValue(str, 0)]
         ELSE [error |-> "ValueError", value |-> 0]

\* int(elem.get("val")): TypeError for None, ValueError for a string that is
\* no integer literal
PyInt(val) ==
    IF val = None THEN [error |-> "TypeError", value |-> 0]
    ELSE IntOfStripped(StripBlanks(val))

\* A search that takes the first placeholder of the layout, whatever its index
FindAnyLayoutPlaceholder(placeholders, ph_idx) ==
    IF placeholders = <<>> THEN NoElement ELSE Head(placeholders)

\* The first layout placeholder with the index of the shape, NoElement for None
RECURSIVE FindLayoutPlaceholder(_, _)
FindLayoutPlaceholder(placeholders, ph_idx) ==
    IF placeholders = <<>> THEN NoElement
    ELSE IF Head(placeholders).idx = ph_idx THEN Head(placeholders)
    ELSE FindLayoutPlaceholder(Tail(placeholders), ph_idx)

\* result as it is initialized
UnsetDefaults ==
    [line_spacing |-> NoValue, line_spacing_type |-> LINE_SPACING_TYPE_DEFAULT,
     space_before_pt |-> Rat(0, 1), space_after_pt |-> Rat(0, 1)]

Returns(result) == [raised |-> "none", result |-> result]
Raises(error) == [raised |-> error, result |-> UnsetDefaults]

\* int(...) / 100000
RatioOf(parsed) == Rat(parsed.value, 100000)

\* A conversion of points that divides as for a percentage
PointsAsRatio(parsed) == Rat(parsed.value, 100000)

\* int(...) / 100
PointsOf(parsed) == Rat(parsed.value, 100)

\* `if spc_pct is not None: ... elif spc_pts is not None: ...`, given the
\* two parsed values
SetLineSpacing(result, ln_spc, pct, pts) ==
    IF ln_spc.spc_pct # NoElement
    THEN IF pct.error # "none" THEN Raises(pct.error)
         ELSE Returns([result EXCEPT !.line_spacing = RatioOf(pct),
                                     !.line_spacing_type = LINE_SPACING_TYPE_RATIO])
    ELSE IF ln_spc.spc_pts # NoElement
    THEN IF pts.error # "none" THEN Raises(pts.error)
         ELSE Returns([result EXCEPT !.line_spacing = PointsOf(pts),
                                     !.line_spacing_type = LINE_SPACING_TYPE_FIXED])
    ELSE Returns(result)

\* Extract line spacing (lnSpc)
ExtractLineSpacing(result, ln_spc) ==
    IF ln_spc = NoElement THEN Returns(result)
    ELSE SetLineSpacing(result, ln_spc,
            IF ln_spc.spc_pct # NoElement THEN PyInt(ln_spc.spc_pct.val)
            ELSE [error |-> "none", value |-> 0],
            IF ln_spc.spc_pts # NoElement THEN PyInt(ln_spc.spc_pts.val)
            ELSE [error |-> "none", value |-> 0])

\* The points of spcBef or spcAft: its spcPts child, else 0.0 as initialized
SpacePoints(spc, parsed) ==
    IF parsed.error # "none" THEN [raised |-> parsed.error, pt |-> Rat(0, 1)]
    ELSE [raised |-> "none", pt |-> PointsOf(parsed)]

ExtractSpace(spc) ==
    IF spc = NoElement \/ spc.spc_pts = NoElement
    THEN [raised |-> "none", pt |-> Rat(0, 1)]
    ELSE SpacePoints(spc, PyInt(spc.spc_pts.val))

\* Extract space after (spcAft), and return result
SetSpaceAfter(result, aft) ==
    IF aft.raised # "none" THEN Raises(aft.raised)
    ELSE Returns([result EXCEPT !.space_after_pt = aft.pt])

\* Extract space before (spcBef), then the space after
SetSpaceBefore(result, bef, lvl1_ppr) ==
    IF bef.raised # "none" THEN Raises(bef.raised)
    ELSE SetSpaceAfter([result EXCEPT !.space_before_pt = bef.pt],
                       ExtractSpace(lvl1_ppr.spc_aft))

\* The function from `ln_spc = lvl1_ppr.find(...)` on, given what the line
\* spacing gave
AfterLineSpacing(spaced, lvl1_ppr) ==
    IF spaced.raised # "none" THEN spaced
    ELSE SetSpaceBefore(spaced.result, ExtractSpace(lvl1_ppr.spc_bef), lvl1_ppr)

\* The function from `tx_body = layout_shape._element.find(...)` on
FromLayoutShape(layout_shape) ==
    IF layout_shape = NoElement THEN Returns(UnsetDefaults)
    ELSE IF layout_shape.tx_body = NoElement THEN Returns(UnsetDefaults)
    ELSE IF layout_shape.tx_body.lst_style = NoElement THEN Returns(UnsetDefaults)
    ELSE IF layout_shape.tx_body.lst_style.lvl1_ppr = NoElement
    THEN Returns(UnsetDefaults)
    ELSE AfterLineSpacing(
            ExtractLineSpacing(UnsetDefaults,
                               layout_shape.tx_body.lst_style.lvl1_ppr.ln_spc),
            layout_shape.tx_body.lst_style.lvl1_ppr)

\* get_placeholder_paragraph_defaults: the ParagraphDefaults returned, or the
\* error raised
GetPlaceholderParagraphDefaults(shape) ==
    IF ~shape.has_placeholder_format THEN Returns(UnsetDefaults)
    ELSE FromLayoutShape(FindLayoutPlaceholder(shape.layout_placeholders, shape.idx))

----------------------------------------------------------------------------
(* get_placeholder_paragraph_defaults as a function of the placeholder     *)

VAL_100000 == <<"1", "0", "0", "0", "0", "0">>
VAL_150000 == <<"1", "5", "0", "0", "0", "0">>
VAL_1400 == <<"1", "4", "0", "0">>
VAL_300 == <<"3", "0", "0">>
VAL_PERCENT == <<"9", "0", "%">>
VAL_WORD == <<"x">>

\* The val attributes of the line spacing and of the paragraph spacing
LineVals == {None, VAL_100000, VAL_150000, VAL_1400, VAL_PERCENT}
SpaceVals == {VAL_300, VAL_WORD}

SpcElements(vals) == {NoElement} \cup {[val |-> v] : v \in vals}

LnSpcs ==
    {NoElement} \cup [spc_pct : SpcElements(LineVals), spc_pts : SpcElements(LineVals)]

Spacings ==
    {NoElement} \cup [spc_pts : SpcElements(SpaceVals), spc_pct : SpcElements({VAL_100000})]

Lvl1PPrs ==
    {NoElement} \cup [ln_spc : LnSpcs, spc_bef : Spacings, spc_aft : Spacings]

TxBodies ==
    {NoElement, [lst_style |-> NoElement]}
    \cup {[lst_style |-> [lvl1_ppr |-> lvl1_ppr]] : lvl1_ppr \in Lvl1PPrs}

\* A layout placeholder of another index, with level-1 defaults of its own
OTHER_PLACEHOLDER ==
    [idx |-> 2,
     tx_body |-> [lst_style |-> [lvl1_ppr |->
        [ln_spc |-> [spc_pct |-> [val |-> VAL_150000], spc_pts |-> NoElement],
         spc_bef |-> [spc_pts |-> [val |-> VAL_300], spc_pct |-> NoElement],
         spc_aft |-> NoElement]]]]

PlaceholderShape(has_placeholder_format, layout_placeholders) ==
    [has_placeholder_format |-> has_placeholder_format, idx |-> 1,
     layout_placeholders |-> layout_placeholders]

\* A shape that is no placeholder, placeholders without a layout placeholder
\* of their index, and placeholders with one
PlaceholderShapes ==
    {PlaceholderShape(FALSE, <<OTHER_PLACEHOLDER>>),
     PlaceholderShape(TRUE, <<>>),
     PlaceholderShape(TRUE, <<OTHER_PLACEHOLDER>>)}
    \cup {PlaceholderShape(TRUE, <<OTHER_PLACEHOLDER, [idx |-> 1, tx_body |-> t]>>) :
            t \in TxBodies}

InitDefaults ==
    /\ font_cache = EmptyCache
    /\ dynamic_font_name_to_file = EmptyMapping
    /\ \E shape \in PlaceholderShapes :
            last = [op |-> "request", args |-> [shape |-> shape], res |-> <<>>,
                    parity |-> 0]

GotDefaults(r) ==
    /\ last' = Called("get_placeholder_paragraph_defaults", last.args, r)
    /\ UNCHANGED <<font_cache, dynamic_font_name_to_file>>

ApplyGetPlaceholderParagraphDefaults ==
    /\ last.op = "request"
    /\ GotDefaults(GetPlaceholderParagraphDefaults(last.args.shape))

NextDefaults == ApplyGetPlaceholderParagraphDefaults

SpecDefaults == InitDefaults /\ [][NextDefaults]_vars

----------------------------------------------------------------------------
(* pptx_fill_data_into_template.py.  A JSON value is a record of its kind  *)
(* and content.  A shape of the slide is a record of its name, what        *)
(* get_shape_font reads (text), what get_placeholder_paragraph_defaults    *)
(* reads (ph), its size and margins in EMU, and its text frame (frame).    *)

MAX_FONT_SIZE == 24
POWERPOINT_LINE_HEIGHT_FACTOR == Rat(12, 10)

\* LABEL_SEPARATORS: the full-width colon, written as one character, and ":"
LABEL_SEPARATORS == <<"U+FF1A", ":">>

JsonNull == [kind |-> "null"]
JsonInt(i) == [kind |-> "int", int |-> i]
JsonStr(str) == [kind |-> "str", str |-> str]

\* int(value) for a JSON value
PyIntOfJson(value) ==
    IF value.kind = "int" THEN [error |-> "none", value |-> value.int]
    ELSE IF value.kind = "str" THEN PyInt(value.str)
    ELSE [error |-> "TypeError", value |-> 0]

\* Emu(emu).pt
EmuPt(emu) == InLowestTerms(Rat(emu, 12700))

\* _get_pptx_shape_by_name: the position of the first shape of that name, 0
\* for None
RECURSIVE ShapeIndexByName(_, _, _)
ShapeIndexByName(shapes, name, i) ==
    IF i > Len(shapes) THEN 0
    ELSE IF shapes[i].name = name THEN i
    ELSE ShapeIndexByName(shapes, name, i + 1)

\* text.find(sep): the position of the first occurrence, 0 for -1
RECURSIVE FindChar(_, _, _)
FindChar(text, sep, i) ==
    IF i > Len(text) THEN 0
    ELSE IF text[i] = sep THEN i
    ELSE FindChar(text, sep, i + 1)

\* str.lstrip() of blanks
RECURSIVE LStripBlanks(_)
LStripBlanks(str) ==
    IF str # <<>> /\ Head(str) = " " THEN LStripBlanks(Tail(str)) ELSE str

\* label = text[:idx]; body = text[idx + 1:].lstrip()
SplitAt(text, idx) ==
    IF idx = 0 THEN [label |-> text, body |-> <<>>]
    ELSE [label |-> SubSeq(text, 1, idx - 1),
          body |-> LStripBlanks(SubSeq(text, idx + 1, Len(text)))]

\* _split_label_body
SplitLabelBody(text) ==
    IF FindChar(text, LABEL_SEPARATORS[1], 1) # 0
    THEN SplitAt(text, FindChar(text, LABEL_SEPARATORS[1], 1))
    ELSE SplitAt(text, FindChar(text, LABEL_SEPARATORS[2], 1))

\* _get_text_frame_dimensions: (width_pt, height_pt)
GetTextFrameDimensions(shape) ==
    <<EmuPt(shape.width - shape.margin_left - shape.margin_right),
      EmuPt(shape.height - shape.margin_top - shape.margin_bottom)>>

\* font.size = Pt(size)
Pt(size) == [pt |-> size]

Run(text, bold, size) == [text |-> text, bold |-> bold, size |-> size]

\* The runs written for one item, given its label and body
RunsOf(line, split, size) ==
    <<Run(IF split.label # <<>> THEN StripBlanks(split.label) ELSE StripBlanks(line),
          TRUE, size)>>
    \o (IF split.body # <<>>
        THEN <<Run(<<LABEL_SEPARATORS[1]>> \o split.body, FALSE, size)>>
        ELSE <<>>)

\* The paragraphs after the loop `for i, line in enumerate(items)`: the
\* paragraph tf.clear() leaves when there is no item
ParagraphsOf(items, size) ==
    IF items = <<>> THEN <<[runs |-> <<>>]>>
    ELSE [i \in 1..Len(items) |->
            [runs |-> RunsOf(items[i], SplitLabelBody(items[i]), size)]]

\* The runs of the first paragraph as get_shape_font will read them: they
\* carry no typeface
WrittenRuns(paragraphs) ==
    IF paragraphs[1].runs = <<>> THEN <<>>
    ELSE <<[rpr |-> [ea |-> None, latin |-> None]]>>

\* tf.clear(), word_wrap, auto_size and the paragraphs written
WithFrame(shape, auto_size, paragraphs) ==
    [shape EXCEPT !.frame = [auto_size |-> auto_size, word_wrap |-> TRUE,
                             paragraphs |-> paragraphs],
                  !.text.paragraphs = 1,
                  !.text.runs = WrittenRuns(paragraphs)]

\* _fill_text; p.text = text gives one run unless the text is empty
FillText(shape, text) ==
    IF ~shape.text.has_text_frame THEN shape
    ELSE WithFrame(shape, "TEXT_TO_FIT_SHAPE",
                   <<[runs |-> IF text = <<>> THEN <<>>
                               ELSE <<Run(text, FALSE, NoValue)>>]>>)

\* The image files: whether the path is a file, whether Pillow opens it, and
\* its size in pixels
ImageFile(path) ==
    CASE path = "wide.png" -> [is_file |-> TRUE, opens |-> TRUE, w |-> 200, h |-> 100]
      [] path = "broken.png" -> [is_file |-> TRUE, opens |-> FALSE, w |-> 0, h |-> 0]
      [] OTHER -> [is_file |-> FALSE, opens |-> FALSE, w |-> 0, h |-> 0]

\* The picture added over the frame: as wide as the frame when the image is
\* relatively wider, else as high (left and top are left out)
Picture(shape, im) ==
    [shape EXCEPT
        !.name = shape.name \o <<"_", "F", "i", "t">>,
        !.width = IF im.w * shape.height >= shape.width * im.h
                  THEN shape.width ELSE (shape.height * im.w) \div im.h,
        !.height = IF im.w * shape.height >= shape.width * im.h
                   THEN (shape.width * im.h) \div im.w ELSE shape.height,
        !.text = [has_text_frame |-> FALSE, paragraphs |-> 0, runs |-> <<>>,
                  def_rpr |-> NoRPr, lst_def_rpr |-> NoRPr],
        !.ph = [has_placeholder_format |-> FALSE, idx |-> 0,
                layout_placeholders |-> <<>>]]

\* _fill_image: the shapes of the slide afterwards; the picture is added at
\* the end and the frame is removed
FillImage(shapes, i, path) ==
    IF ~ImageFile(path).is_file \/ ~ImageFile(path).opens THEN shapes
    ELSE SubSeq(shapes, 1, i - 1) \o SubSeq(shapes, i + 1, Len(shapes))
         \o <<Picture(shapes[i], ImageFile(path))>>

\* line_spacing = para_defaults['line_spacing'] or 1.0
LineSpacingOr1(line_spacing) ==
    IF line_spacing = NoValue THEN Rat(1, 1)
    ELSE IF RIsZero(line_spacing) THEN Rat(1, 1)
    ELSE InLowestTerms(line_spacing)

\* The request _fill_list makes of calculate_fitting_font_size
FitRequest(dims, items, max_size, font_name, font_dir, para_defaults) ==
    Request(dims[1], dims[2], items, max_size, font_name, font_dir,
            <<para_defaults.line_spacing_type = LINE_SPACING_TYPE_FIXED,
              LineSpacingOr1(para_defaults.line_spacing),
              POWERPOINT_LINE_HEIGHT_FACTOR>>,
            <<InLowestTerms(para_defaults.space_before_pt),
              InLowestTerms(para_defaults.space_after_pt)>>)

\* A _fill_list without the except clause
CaughtNever(outcome) == FALSE

\* except ValueError: both fatal fitting errors are raised as ValueError
CaughtByFillList(outcome) == outcome \in {"FontNotFound", "MeasurementFailure"}

\* What _fill_list leaves: the error that left it, the two caches, the shape,
\* and what the fitting call gave ("not_called" without one)
Filled(raised, cache, mapping, shape, fit, size, font_path) ==
    [raised |-> raised, cache |-> cache, mapping |-> mapping, shape |-> shape,
     fit |-> fit, size |-> size, font_path |-> font_path]

\* _fill_list from tf.clear() on
WriteItems(cache, mapping, shape, items, fit, calculated_font_size, font_path) ==
    Filled("none", cache, mapping,
           WithFrame(shape,
                     IF calculated_font_size = NoValue THEN "TEXT_TO_FIT_SHAPE"
                     ELSE "NONE",
                     ParagraphsOf(items, calculated_font_size)),
           fit, calculated_font_size, font_path)

\* try: calculated_font_size = calculate_fitting_font_size(...)
\* except ValueError: calculated_font_size = None
AfterFitting(r, shape, items) ==
    IF r.outcome = "return"
    THEN WriteItems(r.cache, r.mapping, shape, items, r.outcome, Pt(r.size),
                    r.font_path)
    ELSE IF CaughtByFillList(r.outcome)
    THEN WriteItems(r.cache, r.mapping, shape, items, r.outcome, NoValue, r.font_path)
    ELSE Filled(r.outcome, r.cache, r.mapping, shape, r.outcome, NoValue, r.font_path)

\* _fill_list from `para_defaults = get_placeholder_paragraph_defaults(shape)`
\* on, which stands before the try
WithParaDefaults(defaults, cache, mapping, shape, items, max_size, font_name, font_dir, io_errors) ==
    IF defaults.raised # "none"
    THEN Filled(defaults.raised, cache, mapping, shape, "not_called", NoValue, NoPath)
    ELSE AfterFitting(
            CalculateFittingFontSize(cache, mapping,
                FitRequest(GetTextFrameDimensions(shape), items, max_size, font_name,
                           font_dir, defaults.result),
                io_errors),
            shape, items)

\* _fill_list from `if font_name and font_dir:` on
WithFontName(font_name, cache, mapping, shape, items, max_size, font_dir, io_errors) ==
    IF Truthy(font_name) /\ font_dir # ""
    THEN WithParaDefaults(GetPlaceholderParagraphDefaults(shape.ph), cache, mapping,
                          shape, items, max_size, font_name, font_dir, io_errors)
    ELSE WriteItems(cache, mapping, shape, items, "not_called", NoValue, NoPath)

\* _fill_list; max_font_size is 0 for None, which is as falsy
FillList(cache, mapping, shape, items, max_font_size, font_dir, theme_fonts, io_errors) ==
    IF ~shape.text.has_text_frame
    THEN Filled("none", cache, mapping, shape, "not_called", NoValue, NoPath)
    ELSE WithFontName(GetShapeFont(shape.text, theme_fonts), cache, mapping, shape,
                      items,
                      IF max_font_size # 0 THEN max_font_size ELSE MAX_FONT_SIZE,
                      font_dir, io_errors)

\* max_font_size after the isinstance test, 0 for None
MaxFontSizeOf(value) == IF value.kind = "int" THEN value.int ELSE 0

\* The state of a run while the placeholders are filled: the caches, the
\* shapes of the slide, the error raised, and one record per placeholder
\* entry gone through
Progress(cache, mapping, shapes, raised, fills) ==
    [cache |-> cache, mapping |-> mapping, shapes |-> shapes, raised |-> raised,
     fills |-> fills]

FillRecord(name, kind, fit, size, font_path) ==
    [name |-> name, kind |-> kind, fit |-> fit, size |-> size, font_path |-> font_path]

\* The run after _fill_list (f) for the shape at position i
AfterFillList(st, i, f) ==
    Progress(f.cache, f.mapping, [st.shapes EXCEPT ![i] = f.shape], f.raised,
             Append(st.fills, FillRecord(st.shapes[i].name, "list", f.fit, f.size, f.font_path)))

\* `if shp:` for the shape at position i, by the lowered type
FillShape(st, i, ph_value, ph_type, font_dir, theme_fonts, io_errors) ==
    IF ph_type = <<"t", "e", "x", "t">>
    THEN Progress(st.cache, st.mapping,
                  [st.shapes EXCEPT ![i] = FillText(st.shapes[i], ph_value.text)],
                  "none",
                  Append(st.fills, FillRecord(ph_value.name, "text", "not_called", NoValue, NoPath)))
    ELSE IF ph_type = <<"i", "m", "a", "g", "e">>
    THEN Progress(st.cache, st.mapping, FillImage(st.shapes, i, ph_value.path),
                  "none",
                  Append(st.fills, FillRecord(ph_value.name, "image", "not_called", NoValue, NoPath)))
    ELSE IF ph_type = <<"l", "i", "s", "t">>
    THEN AfterFillList(st, i,
            FillList(st.cache, st.mapping, st.shapes[i], ph_value.items,
                     MaxFontSizeOf(ph_value.max_font_size), font_dir, theme_fonts,
                     io_errors))
    ELSE Progress(st.cache, st.mapping, st.shapes, "none",
                  Append(st.fills, FillRecord(ph_value.name, "unknown", "not_called", NoValue, NoPath)))

\* The body of the loop over the placeholders
FillPlaceholder(st, ph_value, font_dir, theme_fonts, io_errors) ==
    IF ph_value.type = None \/ ph_value.name = None
    THEN Progress(st.cache, st.mapping, st.shapes, "none",
                  Append(st.fills, FillRecord(ph_value.name, "skipped", "not_called", NoValue, NoPath)))
    ELSE IF ShapeIndexByName(st.shapes, ph_value.name, 1) = 0
    THEN Progress(st.cache, st.mapping, st.shapes, "none",
                  Append(st.fills, FillRecord(ph_value.name, "not_found", "not_called", NoValue, NoPath)))
    ELSE FillShape(st, ShapeIndexByName(st.shapes, ph_value.name, 1), ph_value,
                   StrLower(ph_value.type), font_dir, theme_fonts, io_errors)

\* for _, ph_value in phs.items(): an error ends the loop
RECURSIVE FillPlaceholders(_, _, _, _, _)
FillPlaceholders(st, phs, font_dir, theme_fonts, io_errors) ==
    IF phs = <<>> \/ st.raised # "none" THEN st
    ELSE FillPlaceholders(FillPlaceholder(st, Head(phs), font_dir, theme_fonts, io_errors),
                          Tail(phs), font_dir, theme_fonts, io_errors)

\* What a run leaves: the error that left pptx_fill_data_from_json, whether
\* the output was saved, the slide, the placeholders gone through, and the
\* two caches
RunResult(raised, saved, shapes, fills, cache, mapping) ==
    [raised |-> raised, saved |-> saved, shapes |-> shapes, fills |-> fills,
     cache |-> cache, mapping |-> mapping]

\* prs.save(output_pptx), then clear_font_cache()
EndOfRun(st, save_ok) ==
    IF st.raised # "none"
    THEN RunResult(st.raised, FALSE, st.shapes, st.fills, st.cache, st.mapping)
    ELSE IF ~save_ok
    THEN RunResult("PermissionError", FALSE, st.shapes, st.fills, st.cache, st.mapping)
    ELSE RunResult("none", TRUE, st.shapes, st.fills,
                   ClearFontCache(st.cache, st.mapping).cache,
                   ClearFontCache(st.cache, st.mapping).mapping)

\* A shape of the slide, with the default margins of a text frame
SlideShape(name, text, ph, width, height) ==
    [name |-> name, text |-> text, ph |-> ph, width |-> width, height |-> height,
     margin_left |-> 91440, margin_right |-> 91440,
     margin_top |-> 45720, margin_bottom |-> 45720,
     frame |-> [auto_size |-> "unset", word_wrap |-> FALSE, paragraphs |-> <<>>]]

NAME_TITLE == <<"t", "i", "t", "l", "e">>
NAME_BODY == <<"b", "o", "d", "y">>
NAME_ZZ == <<"z", "z">>
NAME_FL == <<"f", "l">>
NAME_NARROW == <<"n", "a", "r", "r", "o", "w">>
NAME_BAD == <<"b", "a", "d">>
NAME_PIC == <<"p", "i", "c">>

\* A text frame whose first run names its latin typeface
TextOf(latin) == Shape(<<[rpr |-> [ea |-> None, latin |-> latin]]>>, NoRPr, NoRPr)

NoTextFrame ==
    [has_text_frame |-> FALSE, paragraphs |-> 0, runs |-> <<>>,
     def_rpr |-> NoRPr, lst_def_rpr |-> NoRPr]

\* A placeholder whose layout gives single line spacing and 3 pt before
\* each paragraph; one whose spcBef carries a value that is no number; and a
\* shape that is no placeholder
PH_LIST ==
    PlaceholderShape(TRUE,
        <<[idx |-> 1,
           tx_body |-> [lst_style |-> [lvl1_ppr |->
              [ln_spc |-> [spc_pct |-> [val |-> VAL_100000], spc_pts |-> NoElement],
               spc_bef |-> [spc_pts |-> [val |-> VAL_300], spc_pct |-> NoElement],
               spc_aft |-> NoElement]]]]>>)

PH_BAD ==
    PlaceholderShape(TRUE,
        <<[idx |-> 1,
           tx_body |-> [lst_style |-> [lvl1_ppr |->
              [ln_spc |-> NoElement,
               spc_bef |-> [spc_pts |-> [val |-> VAL_WORD], spc_pct |-> NoElement],
               spc_aft |-> NoElement]]]]>>)

PH_NONE == PlaceholderShape(FALSE, <<>>)

\* The slide of the template: text areas of 13.5 pt by 40 pt inside the
\* margins, but for one whose margins take its whole width
DeckShapes ==
    <<SlideShape(NAME_TITLE, TextOf(REF_MJ_LT), PH_NONE, 354330, 599440),
      SlideShape(NAME_BODY, TextOf(REF_MN_LT), PH_LIST, 354330, 599440),
      SlideShape(NAME_ZZ, TextOf(<<"Z", "z">>), PH_LIST, 354330, 599440),
      SlideShape(NAME_FL, TextOf(<<"F", "l">>), PH_NONE, 354330, 599440),
      SlideShape(NAME_NARROW, TextOf(<<"M", "o">>), PH_LIST, 182880, 599440),
      SlideShape(NAME_BAD, TextOf(<<"M", "o">>), PH_BAD, 354330, 599440),
      SlideShape(NAME_PIC, NoTextFrame, PH_NONE, 354330, 599440)>>

\* Presentation(template_pptx): its slides, and what get_theme_fonts reads
\* from its theme
Deck ==
    [slides |-> <<DeckShapes>>,
     theme_fonts |-> [minor_ea |-> None, major_ea |-> None,
                      minor_latin |-> <<"M", "o">>, major_latin |-> <<"F", "l">>]]

\* The template files: whether the path is a file and whether python-pptx
\* loads it
TemplateFile(path) ==
    CASE path = "deck.pptx" -> [is_file |-> TRUE, loads |-> TRUE, prs |-> Deck]
      [] path = "broken.pptx" ->
            [is_file |-> TRUE, loads |-> FALSE,
             prs |-> [slides |-> <<>>, theme_fonts |-> NoTheme]]
      [] OTHER ->
            [is_file |-> FALSE, loads |-> FALSE,
             prs |-> [slides |-> <<>>, theme_fonts |-> NoTheme]]

\* The run from `theme_fonts = get_theme_fonts(prs)` on
WithPresentation(prs, cache, mapping, json_data, slide_index, env) ==
    IF slide_index < 0 \/ slide_index >= Len(prs.slides)
    THEN RunResult("IndexError", FALSE, <<>>, <<>>, cache, mapping)
    ELSE EndOfRun(FillPlaceholders(
                    Progress(cache, mapping, prs.slides[slide_index + 1], "none", <<>>),
                    json_data.placeholders, json_data.fontDir, prs.theme_fonts,
                    env.io_errors),
                  env.save_ok)

\* The run from the template check on; mapping is the index after
\* initialize_font_system
WithFontSystem(cache, mapping, json_data, slide_index, env) ==
    IF json_data.templatePptx = "" \/ ~TemplateFile(json_data.templatePptx).is_file
    THEN RunResult("FileNotFoundError", FALSE, <<>>, <<>>, cache, mapping)
    ELSE IF ~TemplateFile(json_data.templatePptx).loads
    THEN RunResult("PackageNotFoundError", FALSE, <<>>, <<>>, cache, mapping)
    ELSE WithPresentation(TemplateFile(json_data.templatePptx).prs, cache, mapping,
                          json_data, slide_index, env)

\* The run after int(json_data.get("slideIndex", 0))
WithSlideIndex(parsed, cache, mapping, json_data, env) ==
    IF parsed.error # "none"
    THEN RunResult("ValueError", FALSE, <<>>, <<>>, cache, mapping)
    ELSE WithFontSystem(cache,
            IF json_data.fontDir # ""
            THEN InitializeFontSystem(mapping, json_data.fontDir).mapping
            ELSE mapping,
            json_data, parsed.value, env)

\* pptx_fill_data_from_json; fontDir is "" where it is missing
PptxFillDataFromJson(cache, mapping, json_data, env) ==
    WithSlideIndex(PyIntOfJson(json_data.slideIndex), cache, mapping, json_data, env)

----------------------------------------------------------------------------
(* Processing runs, one after the other in one process                     *)

TYPE_LIST == <<"l", "i", "s", "t">>
TYPE_TEXT == <<"T", "e", "x", "t">>
TYPE_IMAGE == <<"i", "m", "a", "g", "e">>
TYPE_CHART == <<"c", "h", "a", "r", "t">>

ITEM_LABELLED == <<"a", ":", " ", "b", "c">>
RunItems == <<TEXT_LONG, ITEM_LABELLED>>

\* One entry of "placeholders"; text, items and path are its "value" when
\* the type is text, list and image
Entry(name, type, max_font_size) ==
    [name |-> name, type |-> type, text |-> TEXT_SHORT, items |-> RunItems,
     path |-> "wide.png", max_font_size |-> max_font_size]

ListOn(name) == Entry(name, TYPE_LIST, JsonInt(7))
TextOnTitle == Entry(NAME_TITLE, TYPE_TEXT, JsonNull)

\* The entries the loop skips or leaves without effect, an image that does
\* not open, and an image
OtherEntries ==
    <<Entry(None, TYPE_TEXT, JsonNull),
      Entry(NAME_TITLE, None, JsonNull),
      Entry(NAME_TITLE, TYPE_CHART, JsonNull),
      Entry(<<"n", "o">>, TYPE_LIST, JsonNull),
      ListOn(NAME_PIC),
      [Entry(NAME_PIC, TYPE_IMAGE, JsonNull) EXCEPT !.path = "broken.png"],
      Entry(NAME_PIC, TYPE_IMAGE, JsonNull)>>

\* "placeholders": a list on each text area followed by a text or by another
\* list, a list with maxFontSize missing or no integer, and the other entries
PlaceholderLists ==
    {<<>>, OtherEntries,
     <<ListOn(NAME_ZZ), ListOn(NAME_BODY)>>,
     <<Entry(NAME_BODY, TYPE_LIST, JsonNull)>>,
     <<Entry(NAME_FL, TYPE_LIST, JsonStr(<<"8">>))>>}
    \cup {<<ListOn(name), TextOnTitle>> :
            name \in {NAME_BODY, NAME_ZZ, NAME_FL, NAME_NARROW, NAME_BAD}}

JsonData(template_pptx, slide_index, font_dir, placeholders) ==
    [templatePptx |-> template_pptx, slideIndex |-> slide_index,
     fontDir |-> font_dir, placeholders |-> placeholders]

\* Every list of placeholders on the first slide of the template with a font
\* directory, one without, and the other templates and slide indexes
Payloads ==
    {JsonData("deck.pptx", JsonInt(0), font_dir, phs) :
        font_dir \in {"A", "B"}, phs \in PlaceholderLists}
    \cup {JsonData("deck.pptx", JsonStr(<<"0">>), "", <<ListOn(NAME_BODY), TextOnTitle>>)}
    \cup {JsonData(template_pptx, JsonInt(0), "A", <<ListOn(NAME_BODY)>>) :
            template_pptx \in {"", "broken.pptx", "none.pptx"}}
    \cup {JsonData("deck.pptx", slide_index, "A", <<ListOn(NAME_BODY)>>) :
            slide_index \in {JsonInt(1), JsonInt(0 - 1), JsonStr(VAL_WORD), JsonNull}}

\* What the environment does during a run: whether prs.save succeeds, and
\* the pixel sizes at which a load meets an I/O error
Environments ==
    {[save_ok |-> TRUE, io_errors |-> {}],
     [save_ok |-> FALSE, io_errors |-> {}],
     [save_ok |-> TRUE, io_errors |-> {FontSizePx(7)}]}

\* What a run leaves to see, the caches apart
VisibleRun(r) ==
    [raised |-> r.raised, saved |-> r.saved, shapes |-> r.shapes, fills |-> r.fills]

Ran(r, json_data, env) ==
    /\ font_cache' = r.cache
    /\ dynamic_font_name_to_file' = r.mapping
    /\ last' = Called("pptx_fill_data_from_json",
                      [json_data |-> json_data, env |-> env], VisibleRun(r))

DoFillDataFromJson(json_data, env) ==
    /\ CacheBounded(font_cache)
    /\ Ran(PptxFillDataFromJson(font_cache, dynamic_font_name_to_file, json_data, env),
           json_data, env)

NextRun ==
    \E json_data \in Payloads, env \in Environments : DoFillDataFromJson(json_data, env)

SpecRun == Init /\ [][NextRun]_vars

----------------------------------------------------------------------------
(* Properties of calculate_fitting_font_size, under SpecFit                *)

IsCalculated == last.op = "calculate_fitting_font_size"

\* The handle Pillow gives for a path at a font size
FontAt(font_path, font_size) ==
    [path |-> font_path, px |-> FontSizePx(font_size), serial |-> 1]

\* The width measured for the i-th item at a font size
ItemWidthPx(req, font_path, font_size, i) ==
    BBoxWidth(FontAt(font_path, font_size), req.items[i])

\* The height the engine requires at a font size, every measurement succeeding
RequiredHeight(req, font_path, font_size) ==
    TotalHeightNeeded(req, font_size,
        SumSeq([i \in 1..Len(req.items) |->
                    LinesNeeded(ItemWidthPx(req, font_path, font_size, i),
                                WidthPx(req.width_pt))]))

SizeFits(req, font_path, font_size) ==
    RLeq(RequiredHeight(req, font_path, font_size), req.height_pt)

\* C1: when the call returns a size S because S fits, S is in
\* [6, max_size], S fits, and no size S2 with S < S2 <= max_size fits.
C1_LargestFit ==
    (IsCalculated /\ last.res.outcome = "return" /\ last.res.fitted) =>
        /\ last.res.size \in MIN_FONT_SIZE..last.args.max_size
        /\ SizeFits(last.args, last.res.font_path, last.res.size)
        /\ \A s2 \in (last.res.size + 1)..last.args.max_size :
                ~SizeFits(last.args, last.res.font_path, s2)

\* A size was returned because it fits, after larger sizes were rejected
C1_Witness ==
    /\ IsCalculated /\ last.res.outcome = "return" /\ last.res.fitted
    /\ last.res.size > MIN_FONT_SIZE
    /\ last.res.size < last.args.max_size

\* C2: every size returned is in [MIN_FONT_SIZE, max_size], whatever max_size
\* is (stated as claimed; a max_size below 6 refutes it).
C2_ResultInRange ==
    (IsCalculated /\ last.res.outcome = "return") =>
        /\ MIN_FONT_SIZE <= last.res.size
        /\ last.res.size <= last.args.max_size

\* C3: when the font resolves, no measurement fails, the width is not 0 (so
\* that the required height is defined) and no size in [6, max_size] fits,
\* the call returns exactly 6 and raises nothing.
C3_FloorWhenNothingFits ==
    (/\ IsCalculated
     /\ last.res.font_path # NoPath
     /\ last.res.outcome # "MeasurementFailure"
     /\ ~RIsZero(last.args.width_pt)
     /\ \A s \in MIN_FONT_SIZE..last.args.max_size :
            ~SizeFits(last.args, last.res.font_path, s))
    => (last.res.outcome = "return" /\ last.res.size = MIN_FONT_SIZE)

\* Every size from max_size down to 6 was tried and overflowed
C3_Witness ==
    /\ IsCalculated /\ last.res.outcome = "return" /\ ~last.res.fitted
    /\ last.args.max_size > MIN_FONT_SIZE
    /\ Len(last.res.log) = last.args.max_size - MIN_FONT_SIZE + 1
    /\ \A i \in 1..Len(last.res.log) : ~last.res.log[i].fit

\* ceil(text_width_px / width_px) for a positive width
CeilLines(text_width_px, width_px) ==
    0 - ((0 - text_width_px * width_px.d) \div width_px.n)

\* C4: for every item and every size tried, for every positive width, the
\* line count used is max(1, ceil(text_width_px / available_width_px)) (stated
\* as claimed; a width that is not a whole number of pixels refutes it).
C4_LinesAreCeiling ==
    (IsCalculated /\ last.args.width_pt.n > 0) =>
        \A k \in 1..Len(last.res.log) :
            \A i \in 1..Len(last.res.log[k].lines_per_item) :
                last.res.log[k].lines_per_item[i] =
                    Max(1, CeilLines(ItemWidthPx(last.args, last.res.font_path,
                                                 last.res.log[k].font_size, i),
                                     WidthPx(last.args.width_pt)))

\* The required height of a printed entry, written out from the request
ExpectedLineHeight(req, font_size) ==
    IF req.is_fixed_line_spacing
    THEN req.line_spacing
    ELSE Rat(font_size * req.line_height_factor.n * req.line_spacing.n,
             req.line_height_factor.d * req.line_spacing.d)

ExpectedHeight(req, entry) ==
    RAdd(RMul(RInt(SumSeq(entry.lines_per_item)),
              ExpectedLineHeight(req, entry.font_size)),
         RMul(RAdd(req.space_before_pt, req.space_after_pt),
              RInt(Len(req.items) - 1)))

\* C5: at each size tried, the height compared against height_pt is
\* total_lines * line_height + (space_before + space_after) * (item_count - 1),
\* with line_height = line_spacing when the spacing is fixed and
\* font_size * line_height_factor * line_spacing otherwise; the size is
\* returned exactly when that height is at most height_pt.
C5_RequiredHeight ==
    IsCalculated =>
        \A k \in 1..Len(last.res.log) :
            /\ REq(last.res.log[k].total_height,
                   ExpectedHeight(last.args, last.res.log[k]))
            /\ last.res.log[k].fit =
                    RLeq(ExpectedHeight(last.args, last.res.log[k]),
                         last.args.height_pt)
            /\ last.res.log[k].fit =
                    (/\ k = Len(last.res.log)
                     /\ last.res.fitted
                     /\ last.res.size = last.res.log[k].font_size)

\* Two items with paragraph spacing and fixed line spacing, two sizes tried
C5_Witness ==
    /\ IsCalculated /\ last.res.outcome = "return" /\ last.res.fitted
    /\ Len(last.res.log) >= 2
    /\ Len(last.args.items) = 2
    /\ ~RIsZero(last.args.space_after_pt)
    /\ last.args.is_fixed_line_spacing

----------------------------------------------------------------------------
(* Properties of the two shared caches, under Spec                         *)

\* What the caller of calculate_fitting_font_size gets
Outcome(r) == <<r.outcome, r.size>>

\* C6: a fitting call that aborts with FontNotFound or MeasurementFailure
\* leaves the caches such that every later request gets the outcome it would
\* have got without that call (stated as claimed, for an environment without
\* I/O errors; the index the failed call built for its own directory refutes
\* it).
C6_FailedCallLeavesOutcomes ==
    [][(/\ last'.op = "calculate_fitting_font_size"
        /\ last'.res.outcome \in {"FontNotFound", "MeasurementFailure"})
       => \A req \in SharedRequests :
            Outcome(CalculateFittingFontSize(font_cache',
                        dynamic_font_name_to_file', req, {}))
            = Outcome(CalculateFittingFontSize(font_cache,
                        dynamic_font_name_to_file, req, {}))]_vars

\* C7: the index is cached per directory: the index a lookup in font_dir
\* consults, and the index present after a build request for font_dir, is
\* the one built by scanning font_dir (stated as claimed; one index kept for
\* all directories refutes it).
C7_IndexPerDirectory ==
    /\ (last.op = "find_font_file" /\ last.res.consulted) =>
            dynamic_font_name_to_file = BuildFontNameMapping(last.args.font_dir)
    /\ (last.op = "initialize_font_system" /\ IsDir(last.args.font_dir)) =>
            dynamic_font_name_to_file = BuildFontNameMapping(last.args.font_dir)

\* A second call of initialize_font_system for the directory of the call before
SecondBuildRequest ==
    /\ last.op = "initialize_font_system"
    /\ last'.op = "initialize_font_system"
    /\ last'.args.font_dir = last.args.font_dir

\* C8 as claimed: the second of two build requests for a directory leaves the
\* index as it is and does not scan the directory, whatever the directory
\* yields (a directory without index entries refutes it).
C8_SecondBuildNeverScans ==
    [][SecondBuildRequest =>
        /\ dynamic_font_name_to_file' = dynamic_font_name_to_file
        /\ ~last'.res.scanned]_vars

\* C8 as amended: the second of two build requests for a directory leaves the
\* index as it is; it does not build or scan when the index holds an entry,
\* and it scans the directory again when the index is empty.
C8_SecondBuildIsNoOp ==
    [][SecondBuildRequest =>
        /\ dynamic_font_name_to_file' = dynamic_font_name_to_file
        /\ dynamic_font_name_to_file # EmptyMapping =>
                (~last'.res.built /\ ~last'.res.scanned)
        /\ dynamic_font_name_to_file = EmptyMapping =>
                (last'.res.built
                 /\ last'.res.scanned = ScansDirectory(last'.args.font_dir))]_vars

\* A build request answered from the index scanned from its own directory
C8_Witness ==
    /\ last.op = "initialize_font_system"
    /\ ~last.res.built
    /\ dynamic_font_name_to_file # EmptyMapping
    /\ dynamic_font_name_to_file = BuildFontNameMapping(last.args.font_dir)

\* C9: right after clear_font_cache both caches are empty, whatever came
\* before; the next find_font_file that has a name to look up in a valid
\* directory builds the index from that directory.
C9_ClearResetsBoth ==
    [][/\ last'.op = "clear_font_cache" =>
            (font_cache' = EmptyCache /\ dynamic_font_name_to_file' = EmptyMapping)
       /\ (/\ last.op = "clear_font_cache"
           /\ last'.op = "find_font_file"
           /\ last'.args.font_name # <<>>
           /\ IsDir(last'.args.font_dir)) =>
            (/\ last'.res.built
             /\ dynamic_font_name_to_file' = BuildFontNameMapping(last'.args.font_dir))]_vars

\* A reset that had a font handle and an index to drop
C9_Witness ==
    /\ last.op = "clear_font_cache"
    /\ last.res.font_cache_count > 0
    /\ last.res.mapping_count > 0
    /\ font_cache = EmptyCache

\* C10: no call but clear_font_cache removes or replaces an entry of the
\* font cache, and a get_font that finds its key returns the stored handle
\* and leaves the cache as it is.
C10_AppendOnly ==
    [][last'.op # "clear_font_cache" =>
        /\ \A k \in DOMAIN font_cache :
                k \in DOMAIN font_cache' /\ font_cache'[k] = font_cache[k]
        /\ (/\ last'.op = "get_font"
            /\ <<last'.args.font_path, FontSizePx(last'.args.font_size_pt)>>
                    \in DOMAIN font_cache) =>
                (/\ font_cache' = font_cache
                 /\ last'.res.font =
                        font_cache[<<last'.args.font_path,
                                     FontSizePx(last'.args.font_size_pt)>>])]_vars

\* A get_font answered from the cache
C10_Witness ==
    /\ last.op = "get_font"
    /\ ~last.res.loaded
    /\ last.res.font # NoFont
    /\ Cardinality(DOMAIN font_cache) = MaxCacheEntries

----------------------------------------------------------------------------
(* Errors of calculate_fitting_font_size, get_font and measure_text_width  *)

\* C11: every call of calculate_fitting_font_size ends by returning a size,
\* by the font-not-found error or by the measurement-failure error, for
\* every width (0 and negative widths too), height and item list (stated as
\* claimed; the division by a width of 0 refutes it).
C11_ThreeOutcomes ==
    IsCalculated =>
        last.res.outcome \in {"return", "FontNotFound", "MeasurementFailure"}

\* C12: when find_font_file gives no file for the request, the call raises
\* the font-not-found error, has measured nothing and leaves the font cache
\* as it was.
C12_FontNotFoundFailsFast ==
    [][(/\ last'.op = "calculate_fitting_font_size"
        /\ FindFontFile(dynamic_font_name_to_file, last'.args.font_name,
                        last'.args.font_dir).path = NoPath)
       => /\ last'.res.outcome = "FontNotFound"
          /\ last'.res.log = <<>>
          /\ font_cache' = font_cache]_vars

\* A font-not-found error raised while the font cache held handles
C12_Witness ==
    /\ IsCalculated
    /\ last.res.outcome = "FontNotFound"
    /\ last.args.font_name # <<>>
    /\ font_cache # EmptyCache

\* Whether the load of font_path at a font size fails, the cache being empty
AbsentAt(font_path, font_size, io_errors) ==
    ~TruetypeLoads(font_path, FontSizePx(font_size), io_errors)

\* C13: when the font resolves, there is an item to measure, the width is
\* not 0, and the measurement is absent at a size the scan reaches (no
\* larger size fits), the call raises the measurement-failure error: it
\* returns neither a candidate size nor the floor size.
C13_MeasurementFailureAborts ==
    (/\ IsCalculated
     /\ last.res.font_path # NoPath
     /\ last.args.items # <<>>
     /\ ~RIsZero(last.args.width_pt)
     /\ \E s \in MIN_FONT_SIZE..last.args.max_size :
            /\ AbsentAt(last.res.font_path, s, last.io_errors)
            /\ \A s2 \in (s + 1)..last.args.max_size :
                    ~SizeFits(last.args, last.res.font_path, s2))
    => /\ last.res.outcome = "MeasurementFailure"
       /\ ~last.res.fitted

\* The measurement failed at a size below max_size, after larger sizes
\* overflowed
C13_Witness ==
    /\ IsCalculated
    /\ last.res.outcome = "MeasurementFailure"
    /\ Len(last.res.log) >= 1
    /\ Len(last.args.items) = 2

\* The cache key of a get_font or measure_text_width call
KeyOf(args) == <<args.font_path, FontSizePx(args.font_size_pt)>>

\* C14: a load that fails makes get_font return None and measure_text_width
\* return None, and adds no entry to the font cache; a get_font for the same
\* key after a failed one loads again, and succeeds when the file then loads.
C14_FailedLoadNotCached ==
    [][/\ (/\ last'.op \in {"get_font", "measure_text_width"}
           /\ KeyOf(last'.args) \notin DOMAIN font_cache
           /\ ~TruetypeLoads(last'.args.font_path,
                             FontSizePx(last'.args.font_size_pt), last'.io_errors))
          => /\ font_cache' = font_cache
             /\ last'.op = "get_font" => last'.res.font = NoFont
             /\ last'.op = "measure_text_width" => ~last'.res.ok
       /\ (/\ last.op = "get_font" /\ last.res.font = NoFont
           /\ last'.op = "get_font" /\ last'.args = last.args
           /\ TruetypeLoads(last'.args.font_path,
                            FontSizePx(last'.args.font_size_pt), last'.io_errors))
          => /\ last'.res.loaded
             /\ last'.res.font # NoFont
             /\ font_cache'[KeyOf(last'.args)] = last'.res.font]_vars

\* A load that failed with an I/O error, of a file that loads at other times
C14_Witness ==
    /\ last.op = "get_font"
    /\ last.res.font = NoFont
    /\ last.io_errors # {}
    /\ KeyOf(last.args) \notin DOMAIN font_cache
    /\ font_cache # EmptyCache

----------------------------------------------------------------------------
(* Properties of the lookup and of the index build, under SpecIndex        *)

IsFound == last.op = "find_font_file" /\ last.res.consulted

\* The places, in a key's file list, of the files that exist in font_dir
ExistingAt(font_dir, files) ==
    {i \in 1..Len(files) : IsFile(PathJoin(font_dir, files[i]))}

\* Whether the index has the lowercased name as a key with a file in font_dir
IndexGives(index, font_name, font_dir) ==
    /\ StrLower(font_name) \in DOMAIN index
    /\ ExistingAt(font_dir, index[StrLower(font_name)]) # {}

Least(S) == CHOOSE i \in S : \A j \in S : i <= j

\* C15: when the lowercased name is a key of the index and one of the key's
\* files exists in font_dir, find_font_file returns the first such file in
\* the order of the key's list; a file found otherwise comes from the
\* listing of font_dir.
C15_IndexedFileFirst ==
    IsFound =>
        IF IndexGives(dynamic_font_name_to_file, last.args.font_name,
                      last.args.font_dir)
        THEN last.res.path =
                PathJoin(last.args.font_dir,
                    dynamic_font_name_to_file[StrLower(last.args.font_name)][
                        Least(ExistingAt(last.args.font_dir,
                            dynamic_font_name_to_file[StrLower(last.args.font_name)]))])
        ELSE \/ last.res.path = NoPath
             \/ /\ last.res.path.dir = last.args.font_dir
                /\ InList(last.res.path.file, ListDir(last.args.font_dir))

\* The first file of the key is gone from font_dir and the second is returned
C15_Witness ==
    /\ IsFound
    /\ IndexGives(dynamic_font_name_to_file, last.args.font_name, last.args.font_dir)
    /\ 1 \notin ExistingAt(last.args.font_dir,
                           dynamic_font_name_to_file[StrLower(last.args.font_name)])
    /\ last.res.path # NoPath

\* A string without its spaces and hyphens
IsSeparator(c) == c \in {" ", "-"}
Stripped(str) == SelectSeq(str, LAMBDA c : ~IsSeparator(c))

\* A file name lowercased, its extension (the last four characters) removed,
\* spaces and hyphens stripped
StrippedStem(filename) ==
    Stripped(SubSeq(StrLower(filename), 1, Len(filename) - Len(EXT_TTF)))

\* Whether a file of the listing matches the requested name
NameMatches(filename, font_name) ==
    /\ HasFontExtension(filename)
    /\ \/ StrIn(Stripped(StrLower(font_name)), StrippedStem(filename))
       \/ StrIn(StrippedStem(filename), Stripped(StrLower(font_name)))

MatchingAt(font_dir, font_name) ==
    {i \in 1..Len(ListDir(font_dir)) : NameMatches(ListDir(font_dir)[i], font_name)}

\* C16: when the index gives no existing file, find_font_file returns the
\* first file of the directory listing with a font extension whose stripped
\* stem contains or is contained in the stripped requested name, and None
\* only when no file matches.
C16_FilenameHeuristic ==
    (/\ IsFound
     /\ ~IndexGives(dynamic_font_name_to_file, last.args.font_name,
                    last.args.font_dir))
    => IF MatchingAt(last.args.font_dir, last.args.font_name) = {}
       THEN last.res.path = NoPath
       ELSE last.res.path =
                PathJoin(last.args.font_dir,
                    ListDir(last.args.font_dir)[
                        Least(MatchingAt(last.args.font_dir, last.args.font_name))])

\* "Noto Sans JP" has no index entry and NotoSansJP-Regular.ttf is found
C16_Witness ==
    /\ IsFound
    /\ Len(last.args.font_name) = 12
    /\ StrLower(last.args.font_name) \notin DOMAIN dynamic_font_name_to_file
    /\ last.res.path = PathJoin("C", NAME_NOTO_TTF)

\* Every key is a non-empty lowercase string with a non-empty file list
\* that names no file twice
IndexWellFormed(index) ==
    \A key \in DOMAIN index :
        /\ key # <<>>
        /\ StrLower(key) = key
        /\ index[key] # <<>>
        /\ \A i, j \in 1..Len(index[key]) : i < j => index[key][i] # index[key][j]

\* The place of a file name in a listing
PlaceIn(filename, filenames) ==
    CHOOSE i \in 1..Len(filenames) : filenames[i] = filename

\* Every file list is in the order in which the scan of font_dir met the files
InListingOrder(index, font_dir) ==
    \A key \in DOMAIN index :
        \A i, j \in 1..Len(index[key]) :
            i < j => /\ InList(index[key][i], ListDir(font_dir))
                     /\ InList(index[key][j], ListDir(font_dir))
                     /\ PlaceIn(index[key][i], ListDir(font_dir))
                            < PlaceIn(index[key][j], ListDir(font_dir))

\* Whether filename is listed under the lowercased name, when the name is
\* not empty
ListedUnder(index, name, filename) ==
    name # <<>> =>
        /\ StrLower(name) \in DOMAIN index
        /\ InList(filename, index[StrLower(name)])

\* Every candidate of every font file of font_dir is listed under its family
\* name and under its full name
NamesListed(index, font_dir) ==
    \A i \in 1..Len(ListDir(font_dir)) :
        HasFontExtension(ListDir(font_dir)[i]) =>
            \A k \in 1..Len(GetFontNamesFromFile(PathJoin(font_dir, ListDir(font_dir)[i]))) :
                /\ ListedUnder(index,
                        GetFontNamesFromFile(PathJoin(font_dir, ListDir(font_dir)[i]))[k][2],
                        ListDir(font_dir)[i])
                /\ ListedUnder(index,
                        GetFontNamesFromFile(PathJoin(font_dir, ListDir(font_dir)[i]))[k][1],
                        ListDir(font_dir)[i])

\* C17: the index built over a directory lists each font file under the
\* lowercased family name and the lowercased full name of each of its
\* candidates, when the name is not empty; in every index built or cached,
\* every key is a non-empty lowercase string and its file list is non-empty,
\* without duplicates and in first-insertion order.
C17_IndexContents ==
    /\ (last.op = "_build_font_name_mapping" /\ ScansDirectory(last.args.font_dir)) =>
            /\ NamesListed(last.res.mapping, last.args.font_dir)
            /\ IndexWellFormed(last.res.mapping)
            /\ InListingOrder(last.res.mapping, last.args.font_dir)
    /\ (/\ last.op = "initialize_font_system" /\ last.res.built
        /\ ScansDirectory(last.args.font_dir)) =>
            NamesListed(dynamic_font_name_to_file, last.args.font_dir)
    /\ IndexWellFormed(dynamic_font_name_to_file)
    /\ \E font_dir \in IndexDirs :
            InListingOrder(dynamic_font_name_to_file, font_dir)

\* An index with two files under one key and with a file that gave the same
\* key twice
C17_Witness ==
    /\ last.op = "_build_font_name_mapping"
    /\ \E key \in DOMAIN last.res.mapping : Len(last.res.mapping[key]) = 2
    /\ <<"b", "r">> \in DOMAIN last.res.mapping
    /\ last.res.mapping[<<"b", "r">>] = <<NAME_BR_TTC>>

\* The font resources _get_font_names_from_file reads from a file that opens
ResourcesRead(font_path) ==
    IF EndsWith(StrLower(font_path.file), EXT_TTC)
    THEN FontFile(font_path).fonts
    ELSE SubSeq(FontFile(font_path).fonts, 1, 1)

\* Reading the file fails: it is missing or unreadable, its data is no
\* font, or one of its fonts has no name table
ReadFails(font_path) ==
    \/ ~IsFile(font_path)
    \/ ~FontFile(font_path).opens
    \/ \E i \in 1..Len(ResourcesRead(font_path)) :
            ~ResourcesRead(font_path)[i].has_name_table

\* C18: when reading a font file fails, _get_font_names_from_file returns
\* the empty list, also for a collection whose failure comes after some of
\* its fonts were read (stated as claimed; the candidates appended before
\* the failure refute it).
C18_FailedReadGivesNoCandidates ==
    (last.op = "_get_font_names_from_file" /\ ReadFails(last.args.font_path)) =>
        last.res.results = <<>>

\* C27: every font file or collection _get_font_names_from_file opened is
\* closed when the function exits, whether it returns, catches one of its
\* four errors, or lets an unexpected error propagate.
C27_OpenedFilesClosed ==
    last.op = "_get_font_names_from_file" =>
        /\ last.res.opened = last.res.closed
        /\ last.args.unexpected_at = 0 =>
                /\ last.res.raised = "none"
                /\ last.res.results = GetFontNamesFromFile(last.args.font_path)

\* A collection was opened, reading its names raised an error that is not
\* caught, and the collection was closed
C27_Witness ==
    /\ last.op = "_get_font_names_from_file"
    /\ last.res.raised = "UnexpectedError"
    /\ last.res.opened = {Handle("TTCollection", last.args.font_path)}
    /\ last.res.closed = last.res.opened

----------------------------------------------------------------------------
(* Properties of get_shape_font, under SpecShape                           *)

\* A call for a shape that has a first paragraph
IsShapeFont ==
    /\ last.op = "get_shape_font"
    /\ last.args.shape.has_text_frame
    /\ last.args.shape.paragraphs > 0

IsEmptyName(name) == name \in {None, <<>>}

\* The theme slot a placeholder stands for
SlotOf(placeholder, theme_fonts) ==
    IF theme_fonts = NoTheme THEN None
    ELSE IF placeholder = REF_MN_EA THEN theme_fonts.minor_ea
    ELSE IF placeholder = REF_MJ_EA THEN theme_fonts.major_ea
    ELSE IF placeholder = REF_MN_LT THEN theme_fonts.minor_latin
    ELSE IF placeholder = REF_MJ_LT THEN theme_fonts.major_latin
    ELSE None

\* The name a typeface yields: itself when it is a concrete name, the theme
\* slot when it is a placeholder that resolves, None otherwise
NameOfTypeface(typeface, theme_fonts) ==
    IF IsEmptyName(typeface) THEN None
    ELSE IF Head(typeface) # "+" THEN typeface
    ELSE IF IsEmptyName(SlotOf(typeface, theme_fonts)) THEN None
    ELSE SlotOf(typeface, theme_fonts)

\* The three override levels of a shape: first run, paragraph defaults,
\* list-style level 1
OverrideLevels(shape) ==
    <<IF shape.runs = <<>> THEN NoRPr ELSE shape.runs[1].rpr,
      shape.def_rpr, shape.lst_def_rpr>>

\* The names the two typefaces of a level yield
LevelNames(rpr_elem, theme_fonts) ==
    IF rpr_elem = NoRPr THEN {}
    ELSE {NameOfTypeface(rpr_elem.ea, theme_fonts),
          NameOfTypeface(rpr_elem.latin, theme_fonts)} \ {None}

\* The levels that yield a name
YieldingLevels(shape, theme_fonts) ==
    {k \in 1..3 : LevelNames(OverrideLevels(shape)[k], theme_fonts) # {}}

\* The theme slots in the order minor East-Asian, major East-Asian, minor
\* Latin, major Latin
ThemeSlots(theme_fonts) ==
    IF theme_fonts = NoTheme THEN <<>>
    ELSE <<theme_fonts.minor_ea, theme_fonts.major_ea,
           theme_fonts.minor_latin, theme_fonts.major_latin>>

NonEmptySlots(theme_fonts) ==
    {i \in 1..Len(ThemeSlots(theme_fonts)) : ~IsEmptyName(ThemeSlots(theme_fonts)[i])}

\* C19: the name returned comes from the first source that yields one, in
\* the order first run, paragraph defaults, list-style level 1, theme minor
\* East-Asian, major East-Asian, minor Latin, major Latin; no name is
\* returned when no source yields one.
C19_SourcePriority ==
    IsShapeFont =>
        IF YieldingLevels(last.args.shape, last.args.theme_fonts) # {}
        THEN last.res.font \in
                LevelNames(OverrideLevels(last.args.shape)[
                               Least(YieldingLevels(last.args.shape,
                                                    last.args.theme_fonts))],
                           last.args.theme_fonts)
        ELSE IF NonEmptySlots(last.args.theme_fonts) # {}
        THEN last.res.font =
                ThemeSlots(last.args.theme_fonts)[
                    Least(NonEmptySlots(last.args.theme_fonts))]
        ELSE IsEmptyName(last.res.font)

\* Run, paragraph and list-style overrides are all there and yield nothing,
\* the two East-Asian theme slots are empty: the minor Latin slot is returned
C19_Witness ==
    /\ IsShapeFont
    /\ \A k \in 1..3 : OverrideLevels(last.args.shape)[k] # NoRPr
    /\ YieldingLevels(last.args.shape, last.args.theme_fonts) = {}
    /\ last.args.shape.def_rpr.ea = REF_MN_EA
    /\ last.res.font = THEME_MINOR_LATIN

\* The level that decides: the first that yields a name
DecidingLevel(shape, theme_fonts) ==
    OverrideLevels(shape)[Least(YieldingLevels(shape, theme_fonts))]

\* C20: at the level that decides, the name the East-Asian typeface yields
\* is returned when it yields one, and the name of the Latin typeface only
\* when the East-Asian typeface is absent, empty or an unresolvable
\* placeholder.
C20_EastAsianFirst ==
    (IsShapeFont /\ YieldingLevels(last.args.shape, last.args.theme_fonts) # {}) =>
        IF NameOfTypeface(DecidingLevel(last.args.shape, last.args.theme_fonts).ea,
                          last.args.theme_fonts) # None
        THEN last.res.font =
                NameOfTypeface(DecidingLevel(last.args.shape,
                                             last.args.theme_fonts).ea,
                               last.args.theme_fonts)
        ELSE last.res.font =
                NameOfTypeface(DecidingLevel(last.args.shape,
                                             last.args.theme_fonts).latin,
                               last.args.theme_fonts)

\* The paragraph defaults decide: their East-Asian placeholder resolves and
\* is returned although a concrete Latin typeface is there
C20_Witness ==
    /\ IsShapeFont
    /\ Least(YieldingLevels(last.args.shape, last.args.theme_fonts) \cup {3}) = 2
    /\ last.args.shape.def_rpr.ea = REF_MN_EA
    /\ last.args.shape.def_rpr.latin = PARA_LATIN
    /\ last.res.font = THEME_MINOR_EA

\* An rPr with each typeface replaced by the name it yields
Substituted(rpr_elem, theme_fonts) ==
    IF rpr_elem = NoRPr THEN NoRPr
    ELSE [ea |-> NameOfTypeface(rpr_elem.ea, theme_fonts),
          latin |-> NameOfTypeface(rpr_elem.latin, theme_fonts)]

\* The shape with every theme placeholder replaced by the theme entry of its
\* role, and removed where the placeholder does not resolve
WithoutPlaceholders(shape, theme_fonts) ==
    [shape EXCEPT
        !.runs = [i \in 1..Len(shape.runs) |->
                    [rpr |-> Substituted(shape.runs[i].rpr, theme_fonts)]],
        !.def_rpr = Substituted(shape.def_rpr, theme_fonts),
        !.lst_def_rpr = Substituted(shape.lst_def_rpr, theme_fonts)]

\* C21: a typeface that begins with '+' is never returned as it is: the
\* name returned is the one returned for the shape in which every
\* placeholder is replaced by the theme entry of its role, or is absent when
\* the marker is unmapped, there is no theme or the entry is empty.
C21_PlaceholdersResolved ==
    IsShapeFont =>
        /\ ~(Truthy(last.res.font) /\ Head(last.res.font) = "+")
        /\ last.res.font =
                GetShapeFont(WithoutPlaceholders(last.args.shape,
                                                 last.args.theme_fonts),
                             last.args.theme_fonts)

\* The run's East-Asian placeholder is unmapped and its Latin placeholder
\* resolves to the major Latin theme font
C21_Witness ==
    /\ IsShapeFont
    /\ last.args.shape.runs # <<>>
    /\ last.args.shape.runs[1].rpr # NoRPr
    /\ last.args.shape.runs[1].rpr.ea = REF_UNMAPPED
    /\ last.args.shape.runs[1].rpr.latin = REF_MJ_LT
    /\ last.res.font = THEME_MAJOR_LATIN

----------------------------------------------------------------------------
(* Properties of get_placeholder_paragraph_defaults, under SpecDefaults    *)

IsDefaults == last.op = "get_placeholder_paragraph_defaults"

\* The layout placeholders with the index of the shape
MatchingPlaceholders(shape) ==
    {i \in 1..Len(shape.layout_placeholders) :
        shape.layout_placeholders[i].idx = shape.idx}

\* The text body of the layout placeholder the chain leads to
ChainTxBody(shape) ==
    shape.layout_placeholders[Least(MatchingPlaceholders(shape))].tx_body

\* Every link of the chain is present: a placeholder association, a layout
\* placeholder of the same index, its text body, list style and level-1 defaults
ChainComplete(shape) ==
    /\ shape.has_placeholder_format
    /\ MatchingPlaceholders(shape) # {}
    /\ ChainTxBody(shape) # NoElement
    /\ ChainTxBody(shape).lst_style # NoElement
    /\ ChainTxBody(shape).lst_style.lvl1_ppr # NoElement

ChainLvl1(shape) == ChainTxBody(shape).lst_style.lvl1_ppr

IsAllUnset(result) ==
    /\ result.line_spacing = NoValue
    /\ result.line_spacing_type = "default"
    /\ RIsZero(result.space_before_pt)
    /\ RIsZero(result.space_after_pt)

\* C22: whenever a link of the chain is absent (no placeholder association, no
\* layout placeholder of the same index, no text body, no list style, no
\* level-1 defaults), get_placeholder_paragraph_defaults raises nothing and
\* returns the all-unset default.
C22_AbsentLinkGivesDefault ==
    (IsDefaults /\ ~ChainComplete(last.args.shape)) =>
        /\ last.res.raised = "none"
        /\ IsAllUnset(last.res.result)

\* A placeholder whose layout placeholder has a list style without level-1
\* defaults, beside a layout placeholder of another index that has them
C22_Witness ==
    /\ IsDefaults
    /\ last.args.shape.has_placeholder_format
    /\ Len(last.args.shape.layout_placeholders) = 2
    /\ ChainTxBody(last.args.shape) # NoElement
    /\ ChainTxBody(last.args.shape).lst_style # NoElement
    /\ ChainTxBody(last.args.shape).lst_style.lvl1_ppr = NoElement
    /\ IsAllUnset(last.res.result)

\* The integers the stored values of the inputs stand for
StoredIntegers == (VAL_100000 :> 100000) @@ (VAL_150000 :> 150000)
                  @@ (VAL_1400 :> 1400) @@ (VAL_300 :> 300)

IsStoredInteger(elem) == elem # NoElement /\ elem.val \in DOMAIN StoredIntegers

\* The line spacing the level-1 defaults lead to: (tag, numerator, denominator)
TaggedAs(result, tag, n, d) ==
    /\ result.line_spacing_type = tag
    /\ result.line_spacing # NoValue
    /\ InLowestTerms(result.line_spacing) = InLowestTerms(Rat(n, d))

\* C23: with a complete chain and a call that returns, a percentage-form
\* integer v gives (ratio, v / 100000), a fixed-point-form integer v gives
\* (fixed_pt, v / 100), neither form gives (default, no value), and the value
\* is absent exactly when the tag is 'default'.
C23_LineSpacingTagged ==
    (IsDefaults /\ ChainComplete(last.args.shape) /\ last.res.raised = "none") =>
        /\ (last.res.result.line_spacing = NoValue)
                <=> (last.res.result.line_spacing_type = "default")
        /\ \/ ChainLvl1(last.args.shape).ln_spc = NoElement
           \/ /\ ChainLvl1(last.args.shape).ln_spc.spc_pct = NoElement
              /\ ChainLvl1(last.args.shape).ln_spc.spc_pts = NoElement
           => /\ last.res.result.line_spacing = NoValue
              /\ last.res.result.line_spacing_type = "default"
        /\ /\ ChainLvl1(last.args.shape).ln_spc # NoElement
           /\ IsStoredInteger(ChainLvl1(last.args.shape).ln_spc.spc_pct)
           /\ ChainLvl1(last.args.shape).ln_spc.spc_pts = NoElement
           => TaggedAs(last.res.result, "ratio",
                       StoredIntegers[ChainLvl1(last.args.shape).ln_spc.spc_pct.val],
                       100000)
        /\ /\ ChainLvl1(last.args.shape).ln_spc # NoElement
           /\ IsStoredInteger(ChainLvl1(last.args.shape).ln_spc.spc_pts)
           /\ ChainLvl1(last.args.shape).ln_spc.spc_pct = NoElement
           => TaggedAs(last.res.result, "fixed_pt",
                       StoredIntegers[ChainLvl1(last.args.shape).ln_spc.spc_pts.val],
                       100)

\* A fixed-point line spacing of 1400, returned as 14.0 points
C23_Witness ==
    /\ IsDefaults
    /\ ChainComplete(last.args.shape)
    /\ ChainLvl1(last.args.shape).ln_spc # NoElement
    /\ ChainLvl1(last.args.shape).ln_spc.spc_pct = NoElement
    /\ ChainLvl1(last.args.shape).ln_spc.spc_pts = [val |-> VAL_1400]
    /\ last.res.raised = "none"
    /\ last.res.result.line_spacing_type = "fixed_pt"
    /\ REq(last.res.result.line_spacing, Rat(14, 1))

\* C29: for every region whose chain is complete, whatever the stored values
\* of its line-spacing and paragraph-spacing elements,
\* get_placeholder_paragraph_defaults returns a ParagraphDefaults and raises
\* no error.
C29_NoParsingErrorEscapes ==
    (IsDefaults /\ ChainComplete(last.args.shape)) => last.res.raised = "none"

----------------------------------------------------------------------------
(* Monotonic search, under SpecFit                                         *)

\* The call found its font and can measure against a width that is not zero
HeightDefined ==
    /\ last.res.outcome # "FontNotFound"
    /\ last.args.items = <<>> \/ ~RIsZero(last.args.width_pt)

\* C25: with measured widths that do not shrink as the font grows and
\* non-negative spacings, the height the engine requires does not grow as the
\* candidate size decreases, so when a size S fits every size in [6, S) fits.
C25_MonotonicFit ==
    IsCalculated =>
        /\ \A k \in 1..(Len(last.res.log) - 1) :
                /\ last.res.log[k + 1].font_size = last.res.log[k].font_size - 1
                /\ RLeq(last.res.log[k + 1].total_height, last.res.log[k].total_height)
        /\ HeightDefined =>
                \A s \in MIN_FONT_SIZE..(last.args.max_size - 1) :
                    /\ RLeq(RequiredHeight(last.args, last.res.font_path, s),
                            RequiredHeight(last.args, last.res.font_path, s + 1))
                    /\ SizeFits(last.args, last.res.font_path, s + 1)
                            => SizeFits(last.args, last.res.font_path, s)
        /\ (last.res.outcome = "return" /\ last.res.fitted) =>
                \A s \in MIN_FONT_SIZE..(last.res.size - 1) :
                    SizeFits(last.args, last.res.font_path, s)

\* A size above the floor was returned after a larger one overflowed with a
\* strictly larger height
C25_Witness ==
    /\ IsCalculated
    /\ last.res.outcome = "return"
    /\ last.res.fitted
    /\ last.res.size > MIN_FONT_SIZE
    /\ Len(last.res.log) >= 2
    /\ ~RLeq(last.res.log[1].total_height, last.res.log[2].total_height)

\* The pixel sizes at which the fonts of a path are held after the call
PixelSizesOf(font_path) == {key[2] : key \in {c \in DOMAIN font_cache : c[1] = font_path}}

\* C28: for every candidate size S the scan measured, get_font instantiated
\* and cached the font at S * 96 / 72 pixels, the conversion applied to the
\* available width.
C28_SamePixelConversion ==
    (IsCalculated /\ last.args.items # <<>>) =>
        \A k \in 1..Len(last.res.log) :
            \E px \in PixelSizesOf(last.res.font_path) :
                REq(RInt(px), WidthPx(RInt(last.res.log[k].font_size)))

----------------------------------------------------------------------------
(* Properties of processing runs, under SpecRun                            *)

IsRun == last.op = "pptx_fill_data_from_json"

FatalFittingErrors == {"FontNotFound", "MeasurementFailure"}

\* The shape of that name on the slide as the run left it
ShapeNamed(name) ==
    last.res.shapes[CHOOSE i \in 1..Len(last.res.shapes) : last.res.shapes[i].name = name]

\* The shape of that name in the template
TemplateShapeNamed(name) ==
    DeckShapes[CHOOSE i \in 1..Len(DeckShapes) : DeckShapes[i].name = name]

\* The k-th placeholder met a fatal fitting error
FittingFailedAt(k) ==
    /\ last.res.fills[k].kind = "list"
    /\ last.res.fills[k].fit \in FatalFittingErrors

\* The k-th placeholder fails for another reason: a zero width, or level-1
\* defaults that cannot be parsed
FailsOtherwiseAt(k) ==
    /\ last.res.fills[k].kind = "list"
    /\ \/ last.res.fills[k].fit = "ZeroDivisionError"
       \/ /\ last.args.json_data.fontDir # ""
          /\ TemplateShapeNamed(last.res.fills[k].name).ph = PH_BAD

\* Every item was written without a font size, in auto-fit mode
WrittenForAutoFit(shape, items) ==
    /\ shape.frame.auto_size = "TEXT_TO_FIT_SHAPE"
    /\ Len(shape.frame.paragraphs) = Len(items)
    /\ \A i \in 1..Len(items) :
            /\ shape.frame.paragraphs[i].runs # <<>>
            /\ shape.frame.paragraphs[i].runs[1].text
                    = SubSeq(items[i], 1, Len(shape.frame.paragraphs[i].runs[1].text))
            /\ \A j \in 1..Len(shape.frame.paragraphs[i].runs) :
                    shape.frame.paragraphs[i].runs[j].size = NoValue

\* C24: when the fitting call for a list placeholder fails with a fatal
\* fitting error, every item is written without a font size and the text
\* frame is set to auto-fit; the error does not leave the run, the next
\* placeholder is gone on to, and the output is saved unless something else
\* fails.
C24_FallbackToAutoFit ==
    IsRun =>
        \A k \in 1..Len(last.res.fills) :
            FittingFailedAt(k) =>
                /\ WrittenForAutoFit(ShapeNamed(last.res.fills[k].name),
                                     last.args.json_data.placeholders[k].items)
                /\ last.res.fills[k].size = NoValue
                /\ last.res.raised \notin FatalFittingErrors
                /\ k < Len(last.args.json_data.placeholders) => k < Len(last.res.fills)
                /\ last.res.saved =
                        (/\ last.args.env.save_ok
                         /\ \A j \in 1..Len(last.res.fills) : ~FailsOtherwiseAt(j))

\* The font of the first list was not found, the second list was fitted,
\* and the output was saved
C24_Witness ==
    /\ IsRun
    /\ Len(last.res.fills) = 2
    /\ FittingFailedAt(1)
    /\ last.res.fills[1].fit = "FontNotFound"
    /\ ShapeNamed(last.res.fills[1].name).frame.auto_size = "TEXT_TO_FIT_SHAPE"
    /\ last.res.fills[2].kind = "list"
    /\ last.res.fills[2].fit = "return"
    /\ last.res.saved

\* C26: every run ends with both caches cleared, whether it completes or
\* aborts, so that a run gives what it gives when it starts from empty
\* caches, whatever the runs before it scanned.
C26_CachesClearedAfterRun ==
    IsRun =>
        /\ font_cache = EmptyCache
        /\ dynamic_font_name_to_file = EmptyMapping
        /\ last.res = VisibleRun(PptxFillDataFromJson(EmptyCache, EmptyMapping,
                                                      last.args.json_data,
                                                      last.args.env))

====
